---- MODULE Spec2Model ----
(***************************************************************************)
(* A model of the lyric alignment core of AutoKaraoke-Refactored:          *)
(*   utils/time_utils.py   parse_time_tag, format_time                     *)
(*   core/lrc_parser.py    LrcParser.parse                                 *)
(*   core/lrc_aligner.py   LrcAligner.run and its passes                   *)
(*   core/whisper_worker.py, ui/main_window.py  the task boundary          *)
(*                                                                         *)
(* Conventions.                                                            *)
(*  - Text is a sequence of characters; a character is a string naming one *)
(*    code point ("a", "[", and "ni", "hao", "zuo" for the CJK ideographs  *)
(*    U+4F60, U+597D, U+4F5C, "ko" for a Hangul syllable).                 *)
(*  - Times are integers in milliseconds (the code uses float seconds);    *)
(*    a quotient the code takes in floating point is taken here on the     *)
(*    exact product and floored to the millisecond.                        *)
(*  - Python indices are 0-based, TLA+ sequences 1-based: line i of the    *)
(*    code is element i+1 of lines_text.  Dictionary keys (translations)   *)
(*    keep the code's 0-based value.                                       *)
(***************************************************************************)
EXTENDS Integers, Sequences, FiniteSets, TLC

(***************************************************************************)
(* Generic helpers                                                         *)
(***************************************************************************)
Max(a, b) == IF a >= b THEN a ELSE b
Min(a, b) == IF a <= b THEN a ELSE b
Abs(a) == IF a >= 0 THEN a ELSE 0 - a

SubSeqFrom(s, p) == SubSeq(s, p, Len(s))

\* a sequence written as a function, as the tuple of its elements
Tuple(s) == SubSeq(s, 1, Len(s))

RECURSIVE Flatten(_)
Flatten(ss) ==
    IF ss = <<>> THEN <<>> ELSE Head(ss) \o Flatten(Tail(ss))

(***************************************************************************)
(* Characters                                                              *)
(***************************************************************************)
DigitChars == <<"0", "1", "2", "3", "4", "5", "6", "7", "8", "9">>
Digits == {DigitChars[i] : i \in 1..10}
DigitVal(c) == (CHOOSE i \in 1..10 : DigitChars[i] = c) - 1
DigitOf(n) == DigitChars[n + 1]

\* [a-zA-Z] as far as the model's alphabet goes
Letters == {"a", "b", "l", "y", "r", "L"}
\* [一-龥぀-ゟ゠-ヿ]
CJKChars == {"ni", "hao", "zuo", "shi", "jie", "zai", "jian"}
\* a letter of a script outside those ranges (Hangul): \w, but no token
OtherWordChars == {"ko"}
Whitespace == {" "}

Lower(c) == IF c = "L" THEN "l" ELSE c

(***************************************************************************)
(* utils/time_utils.py                                                     *)
(***************************************************************************)
RECURSIVE SplitOn(_, _)
\* str.split(sep) for a one-character separator
SplitOn(s, sep) ==
    IF \E p \in 1..Len(s) : s[p] = sep
    THEN LET p == CHOOSE q \in 1..Len(s) :
                      s[q] = sep /\ \A r \in 1..(q - 1) : s[r] # sep
         IN  <<SubSeq(s, 1, p - 1)>> \o SplitOn(SubSeqFrom(s, p + 1), sep)
    ELSE <<s>>

RECURSIVE StripChars(_, _)
\* str.strip(chars)
StripChars(s, chars) ==
    IF s = <<>> THEN s
    ELSE IF s[1] \in chars THEN StripChars(Tail(s), chars)
    ELSE IF s[Len(s)] \in chars THEN StripChars(SubSeq(s, 1, Len(s) - 1), chars)
    ELSE s

IsDigitString(s) == s # <<>> /\ \A p \in 1..Len(s) : s[p] \in Digits

RECURSIVE DigitsToInt(_)
DigitsToInt(s) ==
    IF s = <<>> THEN 0
    ELSE 10 * DigitsToInt(SubSeq(s, 1, Len(s) - 1)) + DigitVal(s[Len(s)])

RECURSIVE Pow10(_)
Pow10(n) == IF n = 0 THEN 1 ELSE 10 * Pow10(n - 1)

\* float("ss") or float("ss.fff"), times 1000; -1 stands for ValueError
SecondsToMs(s) ==
    LET parts == SplitOn(s, ".")
    IN  IF Len(parts) = 1 /\ IsDigitString(parts[1])
        THEN 1000 * DigitsToInt(parts[1])
        ELSE IF Len(parts) = 2 /\ IsDigitString(parts[1]) /\ IsDigitString(parts[2])
        THEN LET f == SubSeq(parts[2], 1, Min(3, Len(parts[2])))
             IN  1000 * DigitsToInt(parts[1]) + DigitsToInt(f) * Pow10(3 - Len(f))
        ELSE 0 - 1

\* parse_time_tag: milliseconds, -1 on failure
parse_time_tag(tag) ==
    LET clean == StripChars(tag, {"[", "]"})
        parts == SplitOn(clean, ":")
    IN  IF tag = <<>> THEN 0 - 1
        ELSE IF Len(parts) # 2 THEN 0 - 1
        ELSE IF ~IsDigitString(parts[1]) THEN 0 - 1
        ELSE LET ms == SecondsToMs(parts[2])
             IN  IF ms < 0 THEN 0 - 1
                 ELSE Max(0, DigitsToInt(parts[1]) * 60000 + ms)

RECURSIVE IntToDigits(_)
IntToDigits(n) ==
    IF n < 10 THEN <<DigitOf(n)>>
    ELSE IntToDigits(n \div 10) \o <<DigitOf(n % 10)>>

\* f"{n:0wd}"
ZeroPad(n, w) ==
    LET d == IntToDigits(n)
    IN  IF Len(d) >= w THEN d ELSE Tuple([i \in 1..(w - Len(d)) |-> "0"]) \o d

RECURSIVE floor_log2(_, _)
\* floor(log2(n / d)) for n, d > 0: the binary exponent of the double n / d
floor_log2(n, d) ==
    IF n >= 2 * d THEN 1 + floor_log2(n, 2 * d)
    ELSE IF n < d THEN floor_log2(2 * n, d) - 1
    ELSE 0

RECURSIVE Pow2(_)
Pow2(n) == IF n = 0 THEN 1 ELSE 2 * Pow2(n - 1)

RECURSIVE Pow2Mod1000(_)
Pow2Mod1000(n) == IF n = 0 THEN 1 ELSE (2 * Pow2Mod1000(n - 1)) % 1000

\* the number of fraction bits of the double float(seconds) for ms > 0
\* (a 53-bit mantissa over 2^FractionBits)
FractionBits(ms) == 52 - floor_log2(ms, 1000)

\* float(seconds) for a time of ms milliseconds: the double nearest ms / 1000.
\* It lies rem / (1000 * 2^FractionBits) below ms / 1000 when the remainder
\* rem of ms * 2^FractionBits over 1000 is in 1..499, and at or above it
\* otherwise (a tie needs ms / 1000 >= 2^50).  The result is rem when the
\* double lies below, and 0 when it does not.
float_below(ms) ==
    IF ms <= 0 THEN 0
    ELSE LET rem == ((ms % 1000) * Pow2Mod1000(FractionBits(ms))) % 1000
         IN  IF rem < 500 THEN rem ELSE 0

\* format_time(seconds, offset), both in milliseconds here.  A time of ms
\* milliseconds stands for the double float(seconds) nearest ms / 1000, and
\* the offset is one the double format holds exactly (a multiple of 0.5 s
\* that is not positive), so that float(seconds) + float(time_offset) is
\* computed without rounding.  final_sec // 60, final_sec % 60 and
\* final_sec % 1 are exact in floating point; (final_sec % 1) * 1000 is
\* rounded to the nearest double and int() truncates it.
format_time(ms, offset) ==
    LET sum == ms + offset
        low == IF sum < 0 THEN 0 ELSE float_below(ms)
        \* final_sec = max(0.0, float(seconds) + float(time_offset)) lies in
        \* the millisecond whole
        whole == IF sum < 0 THEN 0 ELSE IF low # 0 THEN sum - 1 ELSE sum
        minutes == whole \div 60000
        secs == (whole \div 1000) % 60
        \* (final_sec % 1) * 1000 is top - low / 2^FractionBits before rounding
        top == IF sum % 1000 = 0 THEN 1000 ELSE sum % 1000
        j == floor_log2(top, 1)
        half_ulp == FractionBits(ms) + (IF top = Pow2(j) THEN j - 1 ELSE j) - 53
        rounds_to_top == half_ulp >= 0 /\ low <= Pow2(half_ulp)
        milliseconds == IF low = 0 THEN whole % 1000
                        ELSE IF rounds_to_top THEN top ELSE top - 1
    IN  ZeroPad(minutes, 2) \o <<":">> \o ZeroPad(secs, 2) \o <<".">>
        \o ZeroPad(milliseconds, 3)

(***************************************************************************)
(* core/lrc_parser.py                                                      *)
(***************************************************************************)
\* the lengths (n1, n2, n3) with which \[\d{1,2}:\d{1,2}(?:[\.:]\d{1,3})?\]
\* matches s at position p; n3 = 0 when the optional group is absent
TagShapesAt(s, p) ==
    {sh \in (1..2) \X (1..2) \X (0..3) :
        LET n1 == sh[1]
            n2 == sh[2]
            n3 == sh[3]
            c == p + 1 + n1
            e == c + 1 + n2
            last == IF n3 = 0 THEN e ELSE e + 1 + n3
        IN  /\ last <= Len(s)
            /\ s[p] = "["
            /\ \A q \in (p + 1)..(c - 1) : s[q] \in Digits
            /\ s[c] = ":"
            /\ \A q \in (c + 1)..(e - 1) : s[q] \in Digits
            /\ IF n3 = 0 THEN TRUE
               ELSE /\ s[e] \in {".", ":"}
                    /\ \A q \in (e + 1)..(last - 1) : s[q] \in Digits
            /\ s[last] = "]"}

\* length of the time tag that starts at position p of s, 0 when none does
TagLenAt(s, p) ==
    IF p > Len(s) \/ TagShapesAt(s, p) = {} THEN 0
    ELSE LET sh == CHOOSE x \in TagShapesAt(s, p) : TRUE
         IN  1 + sh[1] + 1 + sh[2] + (IF sh[3] = 0 THEN 0 ELSE 1 + sh[3]) + 1

\* time_tag_pattern.match(line) is not None
time_tag_match(line) == TagLenAt(line, 1) > 0

RECURSIVE remove_tags(_)
\* remove_tags_pattern.sub('', s)
remove_tags(s) ==
    IF s = <<>> THEN s
    ELSE IF TagLenAt(s, 1) > 0 THEN remove_tags(SubSeqFrom(s, TagLenAt(s, 1) + 1))
    ELSE <<s[1]>> \o remove_tags(Tail(s))

RECURSIVE remove_html(_)
\* remove_html_pattern.sub('', s): each '<' up to the nearest later '>'
remove_html(s) ==
    IF s = <<>> THEN s
    ELSE IF s[1] = "<" /\ \E q \in 2..Len(s) : s[q] = ">"
    THEN LET q == CHOOSE x \in 2..Len(s) :
                      s[x] = ">" /\ \A y \in 2..(x - 1) : s[y] # ">"
         IN  remove_html(SubSeqFrom(s, q + 1))
    ELSE <<s[1]>> \o remove_html(Tail(s))

\* str.strip()
strip(s) == StripChars(s, Whitespace)

\* the role labels of credits_pattern, as far as the alphabet goes
CreditRoles == {<<"zuo">>, <<"l", "y", "r">>}
CreditSeparators == {":", " ", "-"}
CreditMaxFill == 40

\* credits_pattern.match(text) is not None
credits_match(text) ==
    \E role \in CreditRoles :
        /\ Len(text) > Len(role)
        /\ \A q \in 1..Len(role) : Lower(text[q]) = role[q]
        /\ \E j \in (Len(role) + 1)..Min(Len(text), Len(role) + CreditMaxFill + 1) :
               text[j] \in CreditSeparators

\* A parser object: its four fields, and the two locals of parse
ParserState(h, lt, tr, ts, tag, idx) ==
    [headers |-> h, lines_text |-> lt, translations |-> tr,
     lines_timestamps |-> ts, last_time_tag |-> tag, current_index |-> idx]

\* LrcParser.__init__
NewParser == ParserState(<<>>, <<>>, <<>>, <<>>, <<>>, 0 - 1)

\* the stored value floored at zero, as parse_time_tag floors its result
line_timestamp_floored(time_tag) ==
    IF time_tag # <<>> THEN Max(0, parse_time_tag(time_tag)) ELSE 0 - 1000

\* the value parse stores for a new lyric line, in milliseconds:
\* parse_time_tag(tag) / 1000.0 seconds, or -1.0 seconds without a tag
line_timestamp(time_tag) ==
    IF time_tag # <<>> THEN parse_time_tag(time_tag) ELSE 0 - 1000

append_translation(tr, idx, text) ==
    IF idx \in DOMAIN tr
    THEN [tr EXCEPT ![idx] = Append(@, text)]
    ELSE [k \in (DOMAIN tr) \cup {idx} |-> IF k = idx THEN <<text>> ELSE tr[k]]

\* the translation test without the comparison of the tags
is_translation_any_tag(time_tag, last_time_tag, current_index) ==
    time_tag # <<>> /\ current_index >= 0

\* the translation test of parse (last_time_tag None is <<>> here: the test
\* needs a non-empty time_tag, which equals neither None nor "")
is_translation(time_tag, last_time_tag, current_index) ==
    time_tag # <<>> /\ time_tag = last_time_tag /\ current_index >= 0

\* parse: time_tag of a stripped line, <<>> ("") when tag_content_pattern
\* does not match
time_tag_of(line) == SubSeq(line, 1, TagLenAt(line, 1))

\* parse: text_only of a stripped line
text_only_of(line) ==
    IF TagLenAt(line, 1) > 0
    THEN strip(remove_html(remove_tags(strip(SubSeqFrom(line, TagLenAt(line, 1) + 1)))))
    ELSE strip(remove_html(remove_tags(line)))

\* parse: the line is a header tag such as [ti:...]: it starts with '[' and
\* time_tag_pattern does not match it
is_header_line(line) == line[1] = "[" /\ ~time_tag_match(line)

\* one iteration of the loop of parse over the physical lines
parse_line(st, raw) ==
    LET line == strip(raw)
        time_tag == time_tag_of(line)
        text_only == text_only_of(line)
    IN  IF line = <<>> THEN st
        ELSE IF is_header_line(line)
        THEN [st EXCEPT !.headers = Append(@, line)]
        ELSE IF text_only = <<>> THEN st
        ELSE IF credits_match(text_only)
        THEN [st EXCEPT !.headers = Append(@, line)]
        ELSE IF is_translation(time_tag, st.last_time_tag, st.current_index)
        THEN [st EXCEPT !.translations =
                            append_translation(@, st.current_index, text_only)]
        ELSE [st EXCEPT !.lines_text = Append(@, text_only),
                        !.lines_timestamps = Append(@, line_timestamp(time_tag)),
                        !.current_index = @ + 1,
                        !.last_time_tag = time_tag]

RECURSIVE parse_loop(_, _)
parse_loop(st, lines) ==
    IF lines = <<>> THEN st
    ELSE parse_loop(parse_line(st, Head(lines)), Tail(lines))

\* LrcParser.parse(content): content is the list of its physical lines
\* (content.splitlines()).  headers, lines_text and translations are reset,
\* lines_timestamps is not.
parse(prs, text_lines) ==
    parse_loop(ParserState(<<>>, <<>>, <<>>, prs.lines_timestamps, <<>>, 0 - 1),
               text_lines)

(***************************************************************************)
(* core/lrc_aligner.py: tokens and the two character sequences             *)
(***************************************************************************)
\* "time": None of a token.  A value no time of the model takes.
None == 0 - 99999999

\* config.MIN_DURATION, in milliseconds
MIN_DURATION == 60

\* [a-zA-Z0-9']
WordTokenChars == Letters \cup Digits \cup {"'"}
\* what _clean_token keeps: \w and the CJK ranges
CleanKeptChars == Letters \cup Digits \cup CJKChars \cup OtherWordChars \cup {"_"}

\* _clean_token
_clean_token(text) ==
    LET kept == SelectSeq(text, LAMBDA c : c \in CleanKeptChars)
    IN  Tuple([i \in 1..Len(kept) |-> Lower(kept[i])])

\* the end (last position) of the maximal run of [a-zA-Z0-9'] that starts at p
RECURSIVE WordRunEnd(_, _)
WordRunEnd(line, p) ==
    IF p < Len(line) /\ line[p + 1] \in WordTokenChars
    THEN WordRunEnd(line, p + 1) ELSE p

\* _tokenize_line from position p on; last_end_idx is the code's (0-based,
\* exclusive) end of the previous match
RECURSIVE tokenize_from(_, _, _)
tokenize_from(line, p, last_end_idx) ==
    IF p > Len(line) THEN <<>>
    ELSE IF line[p] \in WordTokenChars \/ line[p] \in CJKChars
    THEN LET e == IF line[p] \in WordTokenChars THEN WordRunEnd(line, p) ELSE p
         IN  <<[text |-> SubSeq(line, p, e),
                pre |-> SubSeq(line, last_end_idx + 1, p - 1),
                time |-> None,
                end_idx |-> e]>>
             \o tokenize_from(line, e + 1, e)
    ELSE tokenize_from(line, p + 1, last_end_idx)

\* _tokenize_line
_tokenize_line(line) == tokenize_from(line, 1, 0)

\* the tokens of one line as _prepare_user_sequence leaves them
user_tokens_of_line(line_text, line_idx) ==
    LET toks == _tokenize_line(line_text)
    IN  Tuple([k \in 1..Len(toks) |->
            [text |-> toks[k].text, pre |-> toks[k].pre, time |-> toks[k].time,
             end_idx |-> toks[k].end_idx, line_idx |-> line_idx,
             clean_text |-> _clean_token(toks[k].text)]])

\* _prepare_user_sequence
_prepare_user_sequence(lines_text) ==
    Flatten([i \in 1..Len(lines_text) |-> user_tokens_of_line(lines_text[i], i - 1)])

\* _extract_words_from_result: ai_words_pool
_extract_words_from_result(recognized) ==
    Flatten([i \in 1..Len(recognized) |-> recognized[i].words])

\* the characters _prepare_ai_sequence derives from one word
ai_chars_of_word(w) ==
    LET clean_text == _clean_token(w.word)
        duration == w.end - w.start
    IN  Tuple([i \in 1..Len(clean_text) |->
            [text |-> clean_text[i],
             start |-> w.start + ((i - 1) * duration) \div Len(clean_text)]])

\* _prepare_ai_sequence
_prepare_ai_sequence(pool) ==
    Flatten([i \in 1..Len(pool) |-> ai_chars_of_word(pool[i])])

(***************************************************************************)
(* difflib.SequenceMatcher(None, a, b): the matching blocks (no junk;      *)
(* autojunk needs 200 elements)                                            *)
(***************************************************************************)
\* length of the common run of a from i and b from j, inside [.., ahi] x [.., bhi]
RECURSIVE CommonRun(_, _, _, _, _, _)
CommonRun(a, b, i, j, ahi, bhi) ==
    IF i <= ahi /\ j <= bhi /\ a[i] = b[j]
    THEN 1 + CommonRun(a, b, i + 1, j + 1, ahi, bhi) ELSE 0

\* find_longest_match(alo, ahi, blo, bhi), bounds inclusive and 1-based:
\* <<i, j, k>>, the longest block, of those the earliest in a, then in b
find_longest_match(a, b, alo, ahi, blo, bhi) ==
    LET cands == {<<i, j, CommonRun(a, b, i, j, ahi, bhi)>> :
                      i \in alo..ahi, j \in blo..bhi}
        better(x, y) == \/ x[3] > y[3]
                        \/ x[3] = y[3] /\ x[1] < y[1]
                        \/ x[3] = y[3] /\ x[1] = y[1] /\ x[2] <= y[2]
    IN  IF cands = {} THEN <<alo, blo, 0>>
        ELSE CHOOSE x \in cands : \A y \in cands : better(x, y)

\* get_matching_blocks, as the list of matched index pairs <<i, j>> in order
RECURSIVE matching_pairs(_, _, _, _, _, _)
matching_pairs(a, b, alo, ahi, blo, bhi) ==
    LET m == find_longest_match(a, b, alo, ahi, blo, bhi)
        i == m[1]
        j == m[2]
        k == m[3]
    IN  IF alo > ahi \/ blo > bhi \/ k = 0 THEN <<>>
        ELSE matching_pairs(a, b, alo, i - 1, blo, j - 1)
             \o Tuple([n \in 1..k |-> <<i + n - 1, j + n - 1>>])
             \o matching_pairs(a, b, i + k, ahi, j + k, bhi)

\* the 'equal' spans of get_opcodes(), element by element
equal_pairs(a, b) == matching_pairs(a, b, 1, Len(a), 1, Len(b))

\* the back-fill loop had it taken each matched time as it is, without the
\* clamp to last_valid_time
RECURSIVE backfill_unclamped(_, _, _, _)
backfill_unclamped(user_seq, ai_seq, pairs, last_valid_time) ==
    IF pairs = <<>> THEN user_seq
    ELSE LET user_idx == Head(pairs)[1]
             ai_idx == Head(pairs)[2]
             matched_time == ai_seq[ai_idx].start
         IN  backfill_unclamped([user_seq EXCEPT ![user_idx].time = matched_time],
                                ai_seq, Tail(pairs), matched_time)

\* the back-fill loop of run over the equal spans: the user sequence with
\* the matched times, each clamped to last_valid_time
RECURSIVE backfill(_, _, _, _)
backfill(user_seq, ai_seq, pairs, last_valid_time) ==
    IF pairs = <<>> THEN user_seq
    ELSE LET user_idx == Head(pairs)[1]
             ai_idx == Head(pairs)[2]
             matched_time == Max(ai_seq[ai_idx].start, last_valid_time)
         IN  backfill([user_seq EXCEPT ![user_idx].time = matched_time],
                      ai_seq, Tail(pairs), matched_time)

\* run, steps 3 to 7: the user sequence after matching, grouped by line
lines_tokens_map_of(lines_text, recognized) ==
    LET user_char_sequence == _prepare_user_sequence(lines_text)
        ai_char_sequence == _prepare_ai_sequence(_extract_words_from_result(recognized))
        user_tokens_str == Tuple([k \in 1..Len(user_char_sequence) |->
                                user_char_sequence[k].clean_text])
        ai_tokens_str == Tuple([k \in 1..Len(ai_char_sequence) |->
                              <<ai_char_sequence[k].text>>])
        filled == backfill(user_char_sequence, ai_char_sequence,
                           equal_pairs(user_tokens_str, ai_tokens_str), 0)
    IN  Tuple([i \in 1..Len(lines_text) |->
            SelectSeq(filled, LAMBDA t : t.line_idx = i - 1)])

(***************************************************************************)
(* core/lrc_aligner.py: the per-line passes, on the array of token times   *)
(***************************************************************************)
\* the thresholds the passes are written with, in milliseconds
HALLUCINATION_GAP == 3000
RIGHT_SNAP_GAP == 2500
RIGHT_SNAP_STEP == 300
RIGHT_SNAP_MIN == 100
MAX_STEP_GAP == 400
LEFT_SNAP_STEP == 250
FALLBACK_STEP == 250
CALIBRATION_TOLERANCE == 1500
PRECHECK_GAP == 100
PRECHECK_MIN_SPAN == 100
AVG_STEP_DEFAULT == 300
AVG_STEP_SHORT == 250
AVG_MIN_SPAN == 200
AVG_SLOW_RATE == 500
HARD_GAP == 50
HARD_BACKOFF == 200
HARD_MIN_DURATION == 100

Times(tokens) == Tuple([k \in 1..Len(tokens) |-> tokens[k].time])
WithTimes(tokens, times) == Tuple([k \in 1..Len(tokens) |-> [tokens[k] EXCEPT !.time = times[k]]])

\* Python truthiness of a token time: neither None nor 0.0
Truthy(t) == t # None /\ t # 0

\* the first known time at a position >= k, None when there is none
RECURSIVE next_known(_, _)
next_known(times, k) ==
    IF k > Len(times) THEN None
    ELSE IF times[k] # None THEN times[k]
    ELSE next_known(times, k + 1)

\* the last known time at a position <= k, dflt when there is none
RECURSIVE prev_known(_, _, _)
prev_known(times, k, dflt) ==
    IF k < 1 THEN dflt
    ELSE IF times[k] # None THEN times[k]
    ELSE prev_known(times, k - 1, dflt)

\* the number of holes from position k up to the next known time (or the end)
RECURSIVE holes_from(_, _)
holes_from(times, k) ==
    IF k > Len(times) \/ times[k] # None THEN 0
    ELSE 1 + holes_from(times, k + 1)

\* the loop of _clean_hallucinations from position k on
RECURSIVE clean_from(_, _)
clean_from(times, k) ==
    IF k > Len(times) - 1 THEN times
    ELSE LET t1 == times[k]
             t2 == next_known(times, k + 1)
         IN  IF t1 # None /\ t2 # None /\ t2 - t1 > HALLUCINATION_GAP
             THEN clean_from([times EXCEPT ![k] = None], k + 1)
             ELSE clean_from(times, k + 1)

\* hallucination removal had it compared with a limit of 2.0 s
RECURSIVE clean_from_two_seconds(_, _)
clean_from_two_seconds(times, k) ==
    IF k > Len(times) - 1 THEN times
    ELSE LET t1 == times[k]
             t2 == next_known(times, k + 1)
         IN  IF t1 # None /\ t2 # None /\ t2 - t1 >= 2000
             THEN clean_from_two_seconds([times EXCEPT ![k] = None], k + 1)
             ELSE clean_from_two_seconds(times, k + 1)

\* _clean_hallucinations with that limit
_clean_hallucinations_two_seconds(times) ==
    IF Len(times) < 2 THEN times ELSE clean_from_two_seconds(times, 1)

\* _clean_hallucinations
_clean_hallucinations(times) ==
    IF Len(times) < 2 THEN times ELSE clean_from(times, 1)

\* the time of the hole at position k, had the right snap counted only the
\* holes after it
interpolated_short_snap(times, k, prev_line_end_time) ==
    LET prev_time == prev_known(times, k - 1, prev_line_end_time)
        next_time == next_known(times, k + 1)
        steps_to_next == holes_from(times, k + 1)
    IN  IF next_time # None
        THEN LET gap == next_time - prev_time
             IN  IF gap > RIGHT_SNAP_GAP
                 THEN Max(prev_time + RIGHT_SNAP_MIN,
                          next_time - steps_to_next * RIGHT_SNAP_STEP)
                 ELSE prev_time
                      + Max(MIN_DURATION,
                            Min(gap \div (steps_to_next + 2), MAX_STEP_GAP))
        ELSE prev_time + LEFT_SNAP_STEP

\* the time _interpolate_timestamps gives the hole at position k
interpolated(times, k, prev_line_end_time) ==
    LET prev_time == prev_known(times, k - 1, prev_line_end_time)
        next_time == next_known(times, k + 1)
        steps_to_next == holes_from(times, k + 1)
    IN  IF next_time # None
        THEN LET gap == next_time - prev_time
             IN  IF gap > RIGHT_SNAP_GAP
                 THEN Max(prev_time + RIGHT_SNAP_MIN,
                          next_time - (steps_to_next + 1) * RIGHT_SNAP_STEP)
                 ELSE prev_time
                      + Max(MIN_DURATION,
                            Min(gap \div (steps_to_next + 2), MAX_STEP_GAP))
        ELSE prev_time + LEFT_SNAP_STEP

RECURSIVE interpolate_from(_, _, _)
interpolate_from(times, k, prev_line_end_time) ==
    IF k > Len(times) THEN times
    ELSE IF times[k] = None
    THEN interpolate_from(
             [times EXCEPT ![k] = interpolated(times, k, prev_line_end_time)],
             k + 1, prev_line_end_time)
    ELSE interpolate_from(times, k + 1, prev_line_end_time)

\* _interpolate_timestamps
_interpolate_timestamps(times, prev_line_end_time) ==
    interpolate_from(times, 1, prev_line_end_time)

\* valid_times of run: the known times, in order
valid_times_of(times) == SelectSeq(times, LAMBDA t : t # None)

\* the spread with k counted from 1
spread_from_one(start, duration, count, k) ==
    start + ((k + 1) * duration) \div count

\* times[k] = start + k * (duration / count), for the code's k = 0..
spread(start, duration, count, k) == start + (k * duration) \div count

\* A frame: the state of one iteration of the loop of run between passes.
\*   times   the line's token times       cur  cursor
\*   cal     is_force_calibrated          raised  "" or the exception raised
Frame(times, cur, cal, raised) ==
    [times |-> times, cur |-> cur, cal |-> cal, raised |-> raised]

\* run: hallucination removal, interpolation and the cursor update
clean_and_interpolate(times, cursor) ==
    LET filled == _interpolate_timestamps(_clean_hallucinations(times),
                                          cursor)
        valid_times == valid_times_of(filled)
    IN  Frame(filled,
              IF valid_times # <<>> THEN valid_times[Len(valid_times)]
              ELSE cursor,
              FALSE, "")

\* the test with the toggle read the wrong way round
calibration_applies_inverted(enabled, original_ts) == ~enabled /\ original_ts > 0

\* run: the test that opens the force calibration block
calibration_applies(enabled, original_ts) == enabled /\ original_ts > 0

\* run: force calibration proper (fallback or shift)
force_calibration(f, original_ts) ==
    LET valid_times == valid_times_of(f.times)
    IN  IF valid_times = <<>>
        THEN IF f.times = <<>>
             THEN [f EXCEPT !.raised = "IndexError"]
             ELSE LET ts == Tuple([k \in 1..Len(f.times) |->
                                 original_ts + (k - 1) * FALLBACK_STEP])
                  IN  Frame(ts, ts[Len(ts)], TRUE, "")
        ELSE LET generated_start == valid_times[1]
                 diff == generated_start - original_ts
                 correction == original_ts - generated_start
             IN  IF Abs(diff) > CALIBRATION_TOLERANCE
                 THEN LET ts == Tuple([k \in 1..Len(f.times) |->
                                     IF f.times[k] # None
                                     THEN f.times[k] + correction ELSE None])
                      IN  Frame(ts,
                                IF ts # <<>> /\ ts[Len(ts)] # None
                                THEN ts[Len(ts)] ELSE f.cur,
                                TRUE, "")
                 ELSE f

\* run: next_line_start, None when line i + 1 has no timestamp > 0
\* (i is the code's 0-based index)
next_line_start_of(lines_timestamps, i) ==
    IF i + 1 < Len(lines_timestamps) /\ lines_timestamps[i + 2] > 0
    THEN lines_timestamps[i + 2] ELSE None

\* run: the overlap pre-check
overlap_precheck(f, original_ts, next_line_start, enable_avg) ==
    IF enable_avg \/ next_line_start = None THEN f
    ELSE IF f.times = <<>> THEN [f EXCEPT !.raised = "IndexError"]
    ELSE LET last_time == f.times[Len(f.times)]
         IN  IF Truthy(last_time) /\ last_time > next_line_start - PRECHECK_GAP
             THEN LET start_time == IF Truthy(f.times[1]) THEN f.times[1]
                                    ELSE original_ts
                      limit == next_line_start - PRECHECK_GAP
                      target_end == IF limit <= start_time
                                    THEN start_time + PRECHECK_MIN_SPAN ELSE limit
                      duration == target_end - start_time
                      token_count == Len(f.times)
                      ts == Tuple([k \in 1..token_count |->
                                 spread(start_time, duration, token_count, k - 1)])
                  IN  Frame(ts, ts[Len(ts)], TRUE, "")
             ELSE f

\* run: average distribution
average_distribution(f, original_ts, next_line_start, enable_avg) ==
    IF ~(f.cal /\ enable_avg) \/ f.times = <<>> THEN f
    ELSE LET token_count == Len(f.times)
             start_time == original_ts
             target_end_limit == next_line_start - PRECHECK_GAP
             target_end1 ==
                 IF next_line_start # None
                 THEN IF target_end_limit - start_time < AVG_MIN_SPAN
                      THEN start_time + token_count * AVG_STEP_SHORT
                      ELSE target_end_limit
                 ELSE start_time + token_count * AVG_STEP_DEFAULT
             current_shifted_end == f.times[token_count]
             target_end ==
                 IF Truthy(current_shifted_end)
                    /\ current_shifted_end - start_time > token_count * AVG_SLOW_RATE
                 THEN LET potential_end == Max(target_end1, current_shifted_end)
                      IN  IF next_line_start # None
                             /\ potential_end > next_line_start - PRECHECK_GAP
                          THEN next_line_start - PRECHECK_GAP
                          ELSE potential_end
                 ELSE target_end1
             duration == Max(AVG_MIN_SPAN, target_end - start_time)
             ts == Tuple([k \in 1..token_count |->
                        spread(start_time, duration, token_count, k - 1)])
         IN  Frame(ts, ts[Len(ts)], f.cal, "")

\* the test with the limit itself counted as beyond it
reaches_hard_limit(last_valid_time, hard_limit) == last_valid_time >= hard_limit

\* run, line 263: the last known time of the line lies beyond the limit
exceeds_hard_limit(last_valid_time, hard_limit) == last_valid_time > hard_limit

\* the positions of the known times of a line
known_positions(times) == {k \in 1..Len(times) : times[k] # None}

\* run: the final hard boundary check (i is the code's 0-based index)
final_hard_boundary(f, lines_timestamps, i) ==
    IF ~(i + 1 < Len(lines_timestamps)) THEN f
    ELSE LET next_ts_limit == lines_timestamps[i + 2]
             hard_limit == next_ts_limit - HARD_GAP
             known == known_positions(f.times)
         IN  IF ~(next_ts_limit > 0) \/ known = {} THEN f
             ELSE LET last_valid_idx == CHOOSE k \in known : \A j \in known : j <= k
                      last_valid_time == f.times[last_valid_idx]
                      start_valid_idx == CHOOSE k \in known : \A j \in known : k <= j
                      start_t0 == f.times[start_valid_idx]
                      start_t == IF start_t0 >= hard_limit
                                 THEN Max(0, hard_limit - HARD_BACKOFF) ELSE start_t0
                      duration == IF hard_limit - start_t < HARD_MIN_DURATION
                                  THEN HARD_MIN_DURATION ELSE hard_limit - start_t
                      count == last_valid_idx - start_valid_idx + 1
                      ts == Tuple([k \in 1..Len(f.times) |->
                                 IF k >= start_valid_idx /\ k <= last_valid_idx
                                 THEN spread(start_t, duration, count,
                                             k - start_valid_idx)
                                 ELSE f.times[k]])
                  IN  IF exceeds_hard_limit(last_valid_time, hard_limit)
                      THEN Frame(ts, ts[last_valid_idx], f.cal, f.raised)
                      ELSE f

\* run: the body of the calibration block (lines 127-243) after the test
calibration_block(f0, original_ts, next_line_start, enable_avg) ==
    LET f1 == force_calibration(f0, original_ts)
        f2 == IF f1.raised # "" THEN f1
              ELSE overlap_precheck(f1, original_ts, next_line_start, enable_avg)
    IN  IF f2.raised # "" THEN f2
        ELSE average_distribution(f2, original_ts, next_line_start, enable_avg)

\* run: original_ts of line i (0-based)
original_ts_of(lines_timestamps, i) ==
    IF i < Len(lines_timestamps) THEN lines_timestamps[i + 1] ELSE 0 - 1000

\* run: all the passes of one iteration, ahead of _construct_line_string
reconcile_line(times, cursor, lines_timestamps, i, enable_force, enable_avg) ==
    LET f0 == clean_and_interpolate(times, cursor)
        original_ts == original_ts_of(lines_timestamps, i)
        f1 == IF calibration_applies(enable_force, original_ts)
              THEN calibration_block(f0, original_ts,
                                     next_line_start_of(lines_timestamps, i),
                                     enable_avg)
              ELSE f0
    IN  IF f1.raised # "" THEN f1
        ELSE final_hard_boundary(f1, lines_timestamps, i)

\* run, lines 115-120: interpolation and the cursor update
interpolate_and_update(times, cursor) ==
    LET filled == _interpolate_timestamps(times, cursor)
        valid_times == valid_times_of(filled)
    IN  Frame(filled,
              IF valid_times # <<>> THEN valid_times[Len(valid_times)]
              ELSE cursor,
              FALSE, "")

\* run, lines 160-294: overlap pre-check and average distribution (inside the
\* calibration block), then the final hard boundary check
boundary_steps(f, lines_timestamps, i, enable_force, enable_avg) ==
    LET original_ts == original_ts_of(lines_timestamps, i)
        next_line_start == next_line_start_of(lines_timestamps, i)
        f2 == IF calibration_applies(enable_force, original_ts)
              THEN overlap_precheck(f, original_ts, next_line_start, enable_avg)
              ELSE f
        f3 == IF calibration_applies(enable_force, original_ts) /\ f2.raised = ""
              THEN average_distribution(f2, original_ts, next_line_start,
                                        enable_avg)
              ELSE f2
    IN  IF f3.raised # "" THEN f3
        ELSE final_hard_boundary(f3, lines_timestamps, i)

\* _construct_line_string, the times: each known time not above the running
\* time is moved MIN_DURATION past it
RECURSIVE bump_from(_, _, _)
bump_from(times, k, cursor) ==
    IF k > Len(times) THEN times
    ELSE IF times[k] = None THEN bump_from(times, k + 1, cursor)
    ELSE LET t == IF times[k] <= cursor
                  THEN cursor + MIN_DURATION ELSE times[k]
         IN  bump_from([times EXCEPT ![k] = t], k + 1, t)

\* the times left as they are: no bump
construct_times_unbumped(times, last_valid_time) == times

construct_times(times, last_valid_time) == bump_from(times, 1, last_valid_time)

\* the tag _construct_line_string writes for a token time
time_tag_text(t, offset) ==
    <<"[">>
    \o (IF t # None THEN format_time(t, offset)
        ELSE <<"0", "0", ":", "0", "0", ".", "0", "0">>)
    \o <<"]">>

\* _construct_line_string, the text, from the tokens with their final times
construct_text(tokens, original_line, offset) ==
    IF tokens = <<>> THEN original_line
    ELSE Flatten([k \in 1..Len(tokens) |->
                     LET tag == time_tag_text(tokens[k].time, offset)
                     IN  IF k = 1 /\ strip(tokens[k].pre) # <<>>
                         THEN tag \o tokens[k].pre \o tokens[k].text
                         ELSE tokens[k].pre \o tag \o tokens[k].text])
         \o SubSeqFrom(original_line, tokens[Len(tokens)].end_idx + 1)

\* _construct_line_string: <<line_str, effective_start_time, tokens>>
_construct_line_string(line_tokens, original_line, last_valid_time, offset) ==
    LET toks == WithTimes(line_tokens,
                          construct_times(Times(line_tokens), last_valid_time))
    IN  <<construct_text(toks, original_line, offset),
          IF toks = <<>> THEN None ELSE toks[1].time,
          toks>>

\* run: the translation lines emitted after line i (0-based)
translation_lines(translations, i, effective_start, cursor, offset) ==
    IF i \in DOMAIN translations
    THEN LET final_time == IF effective_start # None THEN effective_start
                           ELSE cursor
         IN  Tuple([k \in 1..Len(translations[i]) |->
                 <<"[">> \o format_time(final_time, offset) \o <<"]">>
                 \o translations[i][k]])
    ELSE <<>>

(***************************************************************************)
(* State                                                                   *)
(***************************************************************************)
VARIABLES
    content,                  \* the lyric text handed to parse, line by line
    parser,                   \* the LrcParser object
    result,                   \* the recognition result: its segments
    time_offset,              \* LrcAligner.time_offset (ms)
    enable_force_calibration, \* LrcAligner.enable_force_calibration
    enable_avg_distribution,  \* LrcAligner.enable_avg_distribution
    apc,                      \* where LrcAligner.run stands
    line_i,                   \* i of the loop of run (0-based)
    lines_tokens_map,         \* run: the tokens of each line
    current_last_time,        \* run: the running cursor
    output_lines,             \* run: output_lines
    run_return,               \* what run returned: its lines
    raised,                   \* the exception run raised, "" when none
    stop_event,               \* the multiprocessing.Event
    stop_polled,              \* whether a poll of run found stop_event set
    construct_call,           \* a call of _construct_line_string: its
                              \* line_tokens and what it returned
    parse_call,               \* a call of LrcParser.parse under way: the
                              \* lines read, the lines left, the parser
    pass_call,                \* one pass of run followed on its own: what
                              \* it was applied to and what it left
    task_queue,               \* LyricsGenApp.task_queue
    result_queue,             \* LyricsGenApp.result_queue
    wpc,                      \* where daemon_worker stands
    args,                     \* the WorkerArgs of the task being run
    model_cache,              \* _model_cache: its model and model_size
    model,                    \* run_inference_task: the local model
    model_source,             \* run_inference_task: whether the local model
                              \* came from the cache, from a load, or neither
    put_by_task,              \* what the task being run has put on
                              \* result_queue so far
    btn_run,                  \* btn_run.isEnabled()
    btn_stop,                 \* btn_stop.isEnabled()
    out_txt,                  \* the text of out_txt
    started,                  \* how many times start has run
    stop_pending,             \* whether stop was called while the task
                              \* last submitted was still on task_queue
    lrc_parser                \* LyricsGenApp.lrc_parser

alignerVars == <<content, parser, result, time_offset, enable_force_calibration,
                 enable_avg_distribution, apc, line_i, lines_tokens_map,
                 current_last_time, output_lines, run_return, raised, stop_polled>>

workerVars == <<task_queue, result_queue, wpc, args, model_cache, model,
                model_source, put_by_task, btn_run, btn_stop, out_txt, started,
                stop_pending, lrc_parser>>

vars == <<alignerVars, stop_event, construct_call, parse_call, pass_call,
          workerVars>>

\* no call of _construct_line_string or of parse is followed on its own
NoCall == [made |-> FALSE]

\* the application as __init__ leaves it: empty queues, the daemon waiting
\* for a task, nothing cached
NoModel == "none"
IdleWorker ==
    /\ task_queue = <<>>
    /\ result_queue = <<>>
    /\ wpc = "get"
    /\ args = [given |-> FALSE]
    /\ model_cache = [model |-> NoModel, model_size |-> NoModel]
    /\ model = NoModel
    /\ model_source = "none"
    /\ put_by_task = <<>>
    /\ btn_run = TRUE
    /\ btn_stop = FALSE
    /\ out_txt = <<>>
    /\ started = 0
    /\ stop_pending = FALSE
    /\ lrc_parser = NewParser


(***************************************************************************)
(* Inputs                                                                  *)
(***************************************************************************)
MaxLines == 2
MaxWords == 2

\* "[mm:ss.cc]" for a time in milliseconds
MkTag(ms) ==
    <<"[">> \o ZeroPad(ms \div 60000, 2) \o <<":">> \o ZeroPad((ms \div 1000) % 60, 2)
    \o <<".">> \o ZeroPad((ms % 1000) \div 10, 2) \o <<"]">>

\* the times of the tags of the reference lines
TagTimes == {0, 1000, 1100, 6000}
LineTags == {<<>>} \cup {MkTag(t) : t \in TagTimes}
\* two ideographs; a word, a space and an ideograph; punctuation only (no token)
LineBodies == {<<"ni", "hao">>, <<"a", " ", "ni">>, <<"!">>}
LyricLines == {tag \o body : tag \in LineTags, body \in LineBodies}

SeqsUpTo(S, n) == UNION {[1..k -> S] : k \in 0..n}

HeaderLine == <<"[", "a", ":", "b", "]">>
TranslationBody == <<"b">>

\* a translation line: the leading tag of the line, then its own text
TranslationOf(line) == SubSeq(line, 1, TagLenAt(line, 1)) \o TranslationBody

PlainDocs == SeqsUpTo(LyricLines, MaxLines)
\* each one-line document again with a header above and a translation below
DecoratedDocs ==
    {<<HeaderLine, d[1], TranslationOf(d[1])>> : d \in [1..1 -> LyricLines]}
\* a text of header lines only: no lyric line
HeaderOnlyDocs == {<<HeaderLine>>}
RefDocs == PlainDocs \cup DecoratedDocs \cup HeaderOnlyDocs

\* recognized words, one ideograph each
WordStarts == {0, 2500, 9000}
WordDuration == 200
WordTexts == {<<"ni">>, <<"hao">>}
Words == {[word |-> w, start |-> t, end |-> t + WordDuration] :
              w \in WordTexts, t \in WordStarts}

\* a segment of the result from its words
SegmentText(ws) == Flatten([k \in 1..Len(ws) |-> ws[k].word])
Segment(ws) == [start |-> ws[1].start, text |-> SegmentText(ws), words |-> ws]
\* a result: no segment, or one segment with its words
WordResults == {<<>>} \cup {<<Segment(ws)>> : ws \in SeqsUpTo(Words, MaxWords) \ {<<>>}}
\* a result of three segments without word times: text with blanks around it,
\* blank text, and a segment that starts before the first
RawResults ==
    { << [start |-> 2500, text |-> <<" ", "ni", "hao", " ">>, words |-> <<>>],
         [start |-> 9000, text |-> <<" ">>, words |-> <<>>],
         [start |-> 1000, text |-> <<"a">>, words |-> <<>>] >> }
Results == WordResults \cup RawResults

Offsets == {0, 0 - 1500}

(***************************************************************************)
(* LrcAligner.run                                                          *)
(***************************************************************************)
Init ==
    /\ content \in RefDocs
    /\ parser = NewParser
    /\ result = <<>>
    /\ time_offset = 0
    /\ enable_force_calibration = TRUE
    /\ enable_avg_distribution = FALSE
    /\ apc = "parse"
    /\ line_i = 0
    /\ lines_tokens_map = <<>>
    /\ current_last_time = 0
    /\ output_lines = <<>>
    /\ run_return = <<>>
    /\ raised = ""
    /\ stop_event = FALSE
    /\ stop_polled = FALSE
    /\ construct_call = NoCall
    /\ parse_call = NoCall
    /\ pass_call = NoCall
    /\ IdleWorker

\* LyricsGenApp.start: lrc_parser.parse(txt)
Parse ==
    /\ apc = "parse"
    /\ parser' = parse(parser, content)
    /\ apc' = "ready"
    /\ UNCHANGED <<content, result, time_offset, enable_force_calibration,
                   enable_avg_distribution, line_i, lines_tokens_map,
                   current_last_time, output_lines, run_return, raised,
                   stop_event, stop_polled,
                   construct_call, parse_call, pass_call, workerVars>>

\* the raw transcript with a line for every segment, with text or not
_generate_raw_lrc_every(segments, offset, stopped) ==
    IF stopped /\ segments # <<>> THEN <<>>
    ELSE Tuple([k \in 1..Len(segments) |->
             <<"[">> \o format_time(segments[k].start, offset) \o <<"]">>
             \o strip(segments[k].text)])

\* _generate_raw_lrc: one line per segment with text; "" when a poll finds
\* the stop event set
_generate_raw_lrc(segments, offset, stopped) ==
    IF stopped /\ segments # <<>> THEN <<>>
    ELSE LET withText == SelectSeq(segments, LAMBDA seg : strip(seg.text) # <<>>)
         IN  Tuple([k \in 1..Len(withText) |->
                 <<"[">> \o format_time(withText[k].start, offset) \o <<"]">>
                 \o strip(withText[k].text)])

\* run: the header lines put in output_lines, and the blank line after them
header_lines(headers) == IF headers # <<>> THEN headers \o << <<>> >> ELSE <<>>

\* LrcAligner(parser, time_offset, ...) and run, lines 37-103, on a
\* recognition result: without lyric lines the raw transcript is returned,
\* else the matched times are filled in and the loop begins
RunStart(res, offset, force, avg) ==
    /\ apc = "ready"
    /\ result' = res
    /\ time_offset' = offset
    /\ enable_force_calibration' = force
    /\ enable_avg_distribution' = avg
    /\ IF parser.lines_text = <<>>
       THEN /\ run_return' = _generate_raw_lrc(res, offset, stop_event)
            /\ stop_polled' = (stop_event /\ res # <<>>)
            /\ apc' = "returned"
            /\ UNCHANGED <<lines_tokens_map>>
       ELSE /\ lines_tokens_map' = lines_tokens_map_of(parser.lines_text, res)
            /\ apc' = "loop"
            /\ stop_polled' = FALSE
            /\ UNCHANGED <<run_return>>
    /\ output_lines' = header_lines(parser.headers)
    /\ line_i' = 0
    /\ current_last_time' = 0
    /\ UNCHANGED <<content, parser, raised, stop_event, construct_call,
                   parse_call, pass_call, workerVars>>

\* what run returns when a poll finds the stop event set, had it returned
\* the lines made so far
run_stopped_partial == output_lines

\* run, line 106: return "", no line
run_stopped == <<>>

\* run, line 106: the poll between two lines finds the stop event set
RunAbort ==
    /\ apc = "loop"
    /\ line_i < Len(parser.lines_text)
    /\ stop_event
    /\ run_return' = run_stopped
    /\ stop_polled' = TRUE
    /\ apc' = "returned"
    /\ UNCHANGED <<content, parser, result, time_offset, enable_force_calibration,
                   enable_avg_distribution, line_i, lines_tokens_map,
                   current_last_time, output_lines, raised, stop_event,
                   construct_call, parse_call, pass_call, workerVars>>

\* run, lines 108-304: one iteration of the loop
RunLine ==
    /\ apc = "loop"
    /\ line_i < Len(parser.lines_text)
    /\ ~stop_event
    /\ LET line_tokens == lines_tokens_map[line_i + 1]
           target_line == parser.lines_text[line_i + 1]
           f == reconcile_line(Times(line_tokens), current_last_time,
                               parser.lines_timestamps, line_i,
                               enable_force_calibration, enable_avg_distribution)
           built == _construct_line_string(WithTimes(line_tokens, f.times),
                                           target_line, 0, time_offset)
       IN  IF f.raised # ""
           THEN /\ raised' = f.raised
                /\ apc' = "raised"
                /\ UNCHANGED <<line_i, lines_tokens_map, current_last_time,
                               output_lines>>
           ELSE /\ lines_tokens_map' = [lines_tokens_map EXCEPT ![line_i + 1] = built[3]]
                /\ current_last_time' = f.cur
                /\ output_lines' =
                       Append(output_lines, built[1])
                       \o translation_lines(parser.translations, line_i, built[2],
                                            f.cur, time_offset)
                /\ line_i' = line_i + 1
                /\ UNCHANGED <<raised, apc>>
    /\ UNCHANGED <<content, parser, result, time_offset, enable_force_calibration,
                   enable_avg_distribution, run_return, stop_event, stop_polled,
                   construct_call, parse_call, pass_call, workerVars>>

\* run, line 306: the loop is over, the joined lines are returned
RunReturn ==
    /\ apc = "loop"
    /\ line_i = Len(parser.lines_text)
    /\ run_return' = output_lines
    /\ apc' = "returned"
    /\ UNCHANGED <<content, parser, result, time_offset, enable_force_calibration,
                   enable_avg_distribution, line_i, lines_tokens_map,
                   current_last_time, output_lines, raised, stop_event, stop_polled,
                   construct_call, parse_call, pass_call, workerVars>>

Run ==
    \E res \in Results, offset \in Offsets, force \in BOOLEAN, avg \in BOOLEAN :
        RunStart(res, offset, force, avg)

Next == Parse \/ Run \/ RunLine \/ RunReturn

Spec == Init /\ [][Next]_vars

(***************************************************************************)
(* The finalized output of run                                             *)
(***************************************************************************)
\* the lines run has finalized so far (1-based): _construct_line_string has
\* written their token times back into lines_tokens_map
Finalized == 1..(IF apc \in {"loop", "returned", "raised"} THEN line_i ELSE 0)

\* a timestamp of lines_timestamps that is known: not the negative sentinel
Known(ts) == ts >= 0

first_time(i) == lines_tokens_map[i][1].time
last_time(i) == lines_tokens_map[i][Len(lines_tokens_map[i])].time

\* C1 (hard boundary): every finalized line with tokens whose next line has a
\* known original timestamp N ends, in the finalized output, at or before
\* N - 0.05 s.
C1_HardBoundary ==
    \A i \in Finalized :
        (/\ lines_tokens_map[i] # <<>>
         /\ i + 1 <= Len(parser.lines_timestamps)
         /\ Known(parser.lines_timestamps[i + 1]))
        => last_time(i) <= parser.lines_timestamps[i + 1] - HARD_GAP

\* C3 (calibration tolerance): with force calibration enabled, every finalized
\* line with tokens and a known original timestamp T starts, in the finalized
\* output, within 1.5 s of T.
C3_CalibrationTolerance ==
    enable_force_calibration
    => \A i \in Finalized :
           (/\ lines_tokens_map[i] # <<>>
            /\ i <= Len(parser.lines_timestamps)
            /\ Known(parser.lines_timestamps[i]))
           => Abs(first_time(i) - parser.lines_timestamps[i])
                  <= CALIBRATION_TOLERANCE

\* the text run returned, read again by a new LrcParser
reparsed == parse(NewParser, run_return)

\* C4 (round trip): when run has aligned a document that has lyric lines and
\* returned, parsing the returned text gives the document's lines_text again.
C4_RoundTrip ==
    (apc = "returned" /\ ~stop_polled /\ parser.lines_text # <<>>)
    => reparsed.lines_text = parser.lines_text

\* C5 (the passes never raise): no iteration of the loop of run ends with an
\* exception, whatever the line's tokens, timestamps and the toggles.
C5_PassesNeverRaise == raised = ""

\* C9 (0.0 is a known timestamp): with force calibration enabled, a finalized
\* line with tokens that is tagged [00:00.00] and has no line after it starts
\* within 1.5 s of 0.0, as a line tagged with a positive time does.
C9_ZeroIsKnown ==
    enable_force_calibration
    => \A i \in Finalized :
           (/\ lines_tokens_map[i] # <<>>
            /\ i = Len(parser.lines_timestamps)
            /\ parser.lines_timestamps[i] = 0)
           => first_time(i) <= CALIBRATION_TOLERANCE

\* the text starts with the lines of head
StartsWith(text, head) ==
    Len(text) >= Len(head) /\ SubSeq(text, 1, Len(head)) = head

\* C12 (header pass-through): when the parsed document has header or credit
\* lines, the text run returns starts with those lines, verbatim and in order,
\* and one blank line after them; on the aligned path and on the raw path.
C12_HeaderPassThrough ==
    (apc = "returned" /\ ~stop_polled /\ parser.headers # <<>>)
    => StartsWith(run_return, parser.headers \o << <<>> >>)

\* the segments of the result whose text is not blank, in their order
SegmentsWithText == SelectSeq(result, LAMBDA seg : strip(seg.text) # <<>>)

\* run has returned the raw transcript of a document without lyric lines
RawReturned ==
    apc = "returned" /\ ~stop_polled /\ parser.lines_text = <<>>

\* C17 (scenario C, raw fallback): without lyric lines run returns exactly one
\* line per recognized segment with text, in segment order, each the tag of
\* the segment's start time plus the offset followed by the segment's text;
\* no pass has run on them: no line was tokenized, the cursor was not moved.
C17_RawFallback ==
    RawReturned
    => /\ Len(run_return) = Len(SegmentsWithText)
       /\ \A k \in 1..Len(SegmentsWithText) :
              run_return[k]
                  = <<"[">> \o format_time(SegmentsWithText[k].start, time_offset)
                    \o <<"]">> \o strip(SegmentsWithText[k].text)
       /\ lines_tokens_map = <<>> /\ line_i = 0 /\ current_last_time = 0

\* the raw transcript of the three segments, one of them blank, was returned
C17_Witness ==
    /\ RawReturned
    /\ Len(result) = 3 /\ Len(run_return) = 2

(***************************************************************************)
(* _construct_line_string on its own: any token times the passes may leave *)
(***************************************************************************)
MaxTokens == 3

\* token times as the passes leave them: equal, decreasing and compressed
\* times included.  The passes leave no hole: _interpolate_timestamps gives
\* every token of the line a time.
LeftTimes == {0, 50, 60, 1000}

\* the line "ni ni .. ni" of n tokens, with the given times
TimedLine(times) ==
    Tuple([k \in 1..Len(times) |->
              [text |-> <<"ni">>, pre |-> <<>>, time |-> times[k], end_idx |-> k,
               line_idx |-> 0, clean_text |-> <<"ni">>]])

IdleAligner ==
    /\ content = <<>>
    /\ parser = NewParser
    /\ result = <<>>
    /\ time_offset = 0
    /\ enable_force_calibration = TRUE
    /\ enable_avg_distribution = FALSE
    /\ apc = "idle"
    /\ line_i = 0
    /\ lines_tokens_map = <<>>
    /\ current_last_time = 0
    /\ output_lines = <<>>
    /\ run_return = <<>>
    /\ raised = ""
    /\ stop_event = FALSE
    /\ stop_polled = FALSE

InitFormat ==
    /\ IdleAligner
    /\ IdleWorker
    /\ parse_call = NoCall
    /\ pass_call = NoCall
    /\ \E n \in 1..MaxTokens : \E times \in [1..n -> LeftTimes] :
           construct_call = [made |-> TRUE, returned |-> FALSE,
                             line_tokens |-> TimedLine(times)]

\* run, line 297: _construct_line_string(line_tokens, target_line, 0.0); the
\* token times are written back into line_tokens
ConstructLine ==
    /\ construct_call.made /\ ~construct_call.returned
    /\ LET built == _construct_line_string(
                        construct_call.line_tokens,
                        Tuple([k \in 1..Len(construct_call.line_tokens) |-> "ni"]),
                        0, time_offset)
       IN  construct_call' = [made |-> TRUE, returned |-> TRUE,
                              line_tokens |-> construct_call.line_tokens,
                              line_str |-> built[1],
                              effective_start_time |-> built[2],
                              tokens |-> built[3]]
    /\ UNCHANGED <<alignerVars, stop_event, parse_call, pass_call, workerVars>>

NextFormat == ConstructLine

SpecFormat == InitFormat /\ [][NextFormat]_vars

\* C2 (strict monotonicity within a line): once _construct_line_string has
\* processed a line, each token's time is greater than the time of the token
\* before it, whatever times the line had.
C2_StrictlyIncreasing ==
    (construct_call.made /\ construct_call.returned)
    => \A k \in 1..(Len(construct_call.tokens) - 1) :
           construct_call.tokens[k + 1].time > construct_call.tokens[k].time

\* a line whose times went down from one token to the next has been processed
C2_Witness ==
    /\ construct_call.made /\ construct_call.returned
    /\ \E k \in 1..(Len(construct_call.line_tokens) - 1) :
           construct_call.line_tokens[k + 1].time
               < construct_call.line_tokens[k].time

(***************************************************************************)
(* LrcParser.parse, one physical line at a time                            *)
(***************************************************************************)
MaxParseLines == 3

\* physical lines: the three tag syntaxes, a tag written with fewer digits,
\* no tag, tag only, a header tag, a credit and a blank line
ParseLines ==
    { MkTag(1000) \o <<"ni">>,
      MkTag(1000) \o <<"b">>,
      <<"[", "0", "0", ":", "0", "1", ".", "0", "]", "b">>,
      <<"[", "0", "0", ":", "0", "2", ":", "5", "0", "]", "hao">>,
      <<"[", "0", "1", ":", "0", "3", "]", "ni">>,
      <<"ni", "hao">>,
      MkTag(1000),
      HeaderLine,
      MkTag(1000) \o <<"zuo", ":", "b">>,
      <<" ">> }

\* parse_call while parse runs: the parser with the two locals of parse (st),
\* the lines not read yet (rest); and, of the last iteration, the line read
\* (line), the parser before it (before) and the physical line that became
\* the most recent lyric line (lyric_line, <<>> when there is none)
InitParse ==
    /\ IdleAligner
    /\ IdleWorker
    /\ construct_call = NoCall
    /\ pass_call = NoCall
    /\ \E doc \in SeqsUpTo(ParseLines, MaxParseLines) :
           parse_call = [made |-> TRUE, read |-> FALSE, rest |-> doc,
                         st |-> parse(NewParser, <<>>), before |-> NewParser,
                         line |-> <<>>, lyric_line |-> <<>>,
                         lyric_before |-> <<>>]

\* parse, lines 37-87: one iteration of the loop
ParseOneLine ==
    /\ parse_call.made /\ parse_call.rest # <<>>
    /\ LET raw == Head(parse_call.rest)
           after == parse_line(parse_call.st, raw)
       IN  parse_call' =
               [made |-> TRUE, read |-> TRUE, rest |-> Tail(parse_call.rest),
                st |-> after, before |-> parse_call.st, line |-> strip(raw),
                lyric_line |-> IF Len(after.lines_text) > Len(parse_call.st.lines_text)
                               THEN strip(raw) ELSE parse_call.lyric_line,
                lyric_before |-> parse_call.lyric_line]
    /\ UNCHANGED <<alignerVars, stop_event, construct_call, pass_call,
                   workerVars>>

NextParse == ParseOneLine

SpecParse == InitParse /\ [][NextParse]_vars

\* the last iteration of parse read a line that is neither blank, a header
\* tag, without text nor a credit
ReadCandidate ==
    /\ parse_call.made /\ parse_call.read
    /\ parse_call.line # <<>>
    /\ ~is_header_line(parse_call.line)
    /\ text_only_of(parse_call.line) # <<>>
    /\ ~credits_match(text_only_of(parse_call.line))

\* the line read made lines_text one longer
BecameLyricLine ==
    /\ parse_call.st.lines_text
           = Append(parse_call.before.lines_text, text_only_of(parse_call.line))
    /\ parse_call.st.translations = parse_call.before.translations
    /\ parse_call.st.current_index = Len(parse_call.st.lines_text) - 1

\* the line read was appended to the translations of the most recent lyric
\* line, whose index exists in lines_text
BecameTranslation ==
    LET idx == parse_call.before.current_index
        old == parse_call.before.translations
        new == parse_call.st.translations
    IN  /\ parse_call.st.lines_text = parse_call.before.lines_text
        /\ idx \in 0..(Len(parse_call.st.lines_text) - 1)
        /\ DOMAIN new = (DOMAIN old) \cup {idx}
        /\ new[idx] = (IF idx \in DOMAIN old THEN old[idx] ELSE <<>>)
                      \o <<text_only_of(parse_call.line)>>
        /\ \A k \in (DOMAIN old) \ {idx} : new[k] = old[k]

\* the line read has a leading time tag, a lyric line precedes it, and the two
\* leading tags are the same text
SameTagAsLyricLine ==
    /\ time_tag_of(parse_call.line) # <<>>
    /\ parse_call.lyric_before # <<>>
    /\ time_tag_of(parse_call.line) = time_tag_of(parse_call.lyric_before)

\* the time the claim gives a tag [mm:ss], [mm:ss.fff] or [mm:ss:fff], in
\* milliseconds: mm*60 + ss + 0.fff seconds
TagSeconds(tag) ==
    LET sh == CHOOSE x \in TagShapesAt(tag, 1) : TRUE
        mm == SubSeq(tag, 2, 1 + sh[1])
        ss == SubSeq(tag, 3 + sh[1], 2 + sh[1] + sh[2])
        fff == SubSeq(tag, 4 + sh[1] + sh[2], 3 + sh[1] + sh[2] + sh[3])
    IN  60000 * DigitsToInt(mm) + 1000 * DigitsToInt(ss)
        + (IF sh[3] = 0 THEN 0 ELSE DigitsToInt(fff) * Pow10(3 - sh[3]))

\* C8 (accepted time-tag syntaxes): a line with a leading tag [mm:ss],
\* [mm:ss.fff] or [mm:ss:fff] that becomes a lyric line is stored with the
\* timestamp mm*60 + ss + 0.fff seconds, a known value.
C8_TagSyntaxes ==
    (/\ ReadCandidate
     /\ time_tag_of(parse_call.line) # <<>>
     /\ Len(parse_call.st.lines_text) > Len(parse_call.before.lines_text))
    => LET ts == parse_call.st.lines_timestamps
       IN  /\ ts # <<>>
           /\ ts[Len(ts)] = TagSeconds(time_tag_of(parse_call.line))
           /\ Known(ts[Len(ts)])

\* C10 (translation detection): a line that is no header, no credit and has
\* text is appended to the translations of the most recent lyric line exactly
\* when its leading time tag is the same text as that line's leading tag;
\* otherwise it becomes the next lyric line.  Without a tag it is never a
\* translation.
C10_TranslationDetection ==
    ReadCandidate
    => /\ SameTagAsLyricLine => BecameTranslation
       /\ ~SameTagAsLyricLine => BecameLyricLine

\* a line was read that repeats the tag of the lyric line before it
C10_Witness == ReadCandidate /\ SameTagAsLyricLine /\ BecameTranslation

\* the parser is whole: every lyric line has its timestamp, every translation
\* list belongs to a lyric line, and current_index is that of the last line
WholeParser(st) ==
    /\ Len(st.lines_timestamps) = Len(st.lines_text)
    /\ DOMAIN st.translations \subseteq 0..(Len(st.lines_text) - 1)
    /\ st.current_index = Len(st.lines_text) - 1

\* the line read is a lyric line whose leading tag parse_time_tag cannot
\* convert
ReadUnconvertibleTag ==
    /\ ReadCandidate
    /\ time_tag_of(parse_call.line) # <<>>
    /\ parse_time_tag(time_tag_of(parse_call.line)) < 0
    /\ ~SameTagAsLyricLine

\* C11 (parse never aborts): every iteration of parse ends with a whole
\* parser, whatever the line; a lyric line whose time tag cannot be converted
\* is appended to lines_text, with a negative (unknown) timestamp.
C11_ParseNeverAborts ==
    (parse_call.made /\ parse_call.read)
    => /\ WholeParser(parse_call.st)
       /\ ReadUnconvertibleTag
          => /\ BecameLyricLine
             /\ parse_call.st.lines_timestamps[Len(parse_call.st.lines_text)] < 0

\* a line with the tag [00:02:50] was read and all lines are read
C11_Witness ==
    /\ ReadUnconvertibleTag /\ BecameLyricLine
    /\ parse_call.rest = <<>>

(***************************************************************************)
(* The final hard boundary check of run on its own                         *)
(***************************************************************************)
\* token times a line may reach the check with, a hole included
BoundaryTimes == {None, 0, 900, 950, 1000, 2000}

\* the original timestamps of the next line: unknown, 0.0 and 1.0 s
NextAnchors == {0 - 1000, 0, 1000}

\* the running cursors the line may reach the check with
BoundaryCursors == {0, 950, 2000}

\* the check is about to run on line 0 of a document of one or two lines
InitBoundary ==
    /\ IdleAligner
    /\ IdleWorker
    /\ construct_call = NoCall
    /\ parse_call = NoCall
    /\ \E times \in SeqsUpTo(BoundaryTimes, MaxTokens),
          cur \in BoundaryCursors,
          anchors \in {<<1000>>} \cup {<<1000, n>> : n \in NextAnchors} :
           pass_call = [made |-> TRUE, applied |-> 0,
                        lines_timestamps |-> anchors,
                        before |-> Frame(times, cur, FALSE, ""),
                        after |-> Frame(times, cur, FALSE, "")]

\* run, lines 247-294, on the line as the last application left it
FinalHardBoundary ==
    /\ pass_call.made /\ pass_call.applied < 2
    /\ pass_call' = [pass_call EXCEPT
                        !.applied = @ + 1,
                        !.before = pass_call.after,
                        !.after = final_hard_boundary(pass_call.after,
                                                      pass_call.lines_timestamps, 0)]
    /\ UNCHANGED <<alignerVars, stop_event, construct_call, parse_call,
                   workerVars>>

NextBoundary == FinalHardBoundary

SpecBoundary == InitBoundary /\ [][NextBoundary]_vars

\* the line the check was applied to has a next-line anchor N and a last
\* non-hole token time that is at most N - 0.05 s
CompliantBefore ==
    /\ pass_call.made /\ pass_call.applied > 0
    /\ Len(pass_call.lines_timestamps) > 1
    /\ Known(pass_call.lines_timestamps[2])
    /\ known_positions(pass_call.before.times) # {}
    /\ \A k \in known_positions(pass_call.before.times) :
           (\A j \in known_positions(pass_call.before.times) : j <= k)
           => pass_call.before.times[k] <= pass_call.lines_timestamps[2] - HARD_GAP

\* C13 (idempotence of the final hard boundary check): applied to a line whose
\* last non-hole token time is at most the next-line anchor less 0.05 s, the
\* check changes no token time of the line and leaves the running cursor.
C13_BoundaryIdempotent ==
    CompliantBefore
    => /\ pass_call.after.times = pass_call.before.times
       /\ pass_call.after.cur = pass_call.before.cur

\* the check ran a second time, on a compliant line before the anchor 1.0 s
C13_Witness ==
    /\ CompliantBefore
    /\ pass_call.applied = 2
    /\ pass_call.lines_timestamps[2] = 1000
    /\ \E k \in known_positions(pass_call.before.times) :
           pass_call.before.times[k] > 0

(***************************************************************************)
(* Hallucination removal and interpolation of run on their own             *)
(***************************************************************************)
\* where the previous line ended: 5.0 s
DriftCursors == {5000}

\* matched times of a line: none, in step with the previous line's end
\* (5.2 s, 5.5 s), and drifted to about 40 s
DriftTimes == {None, 5200, 5500, 40000, 40300, 40600}

\* the line reaches the passes with its matched times, after a line that
\* ended at the cursor
InitDrift ==
    /\ IdleAligner
    /\ IdleWorker
    /\ construct_call = NoCall
    /\ parse_call = NoCall
    /\ \E times \in SeqsUpTo(DriftTimes, MaxTokens) \ {<<>>},
          cur \in DriftCursors :
           pass_call = [made |-> TRUE, applied |-> 0,
                        before |-> Frame(times, cur, FALSE, ""),
                        after |-> Frame(times, cur, FALSE, "")]

\* run, lines 108-120: _clean_hallucinations, _interpolate_timestamps and the
\* cursor update, on a line without original timestamp
CleanAndInterpolate ==
    /\ pass_call.made /\ pass_call.applied = 0
    /\ pass_call' = [pass_call EXCEPT
                        !.applied = 1,
                        !.after = clean_and_interpolate(pass_call.before.times,
                                                        pass_call.before.cur)]
    /\ UNCHANGED <<alignerVars, stop_event, construct_call, parse_call,
                   workerVars>>

NextDrift == CleanAndInterpolate

SpecDrift == InitDrift /\ [][NextDrift]_vars

\* the line has matched times, and all of them lie more than 3.0 s after the
\* previous line's end
Drifted(f) ==
    /\ known_positions(f.times) # {}
    /\ \A k \in known_positions(f.times) : f.times[k] - f.cur > HALLUCINATION_GAP

\* C14 (scenario B, drift re-anchoring): a line whose matched times all lie
\* more than 3.0 s after the previous line's end (5.0 s, against matches at
\* about 40 s) leaves hallucination removal and interpolation with its tokens
\* near the previous line's end, within the 3.0 s of the drift test, and not
\* near 40 s.
C14_DriftReanchored ==
    (pass_call.made /\ pass_call.applied = 1 /\ Drifted(pass_call.before))
    => \A k \in 1..Len(pass_call.after.times) :
           /\ pass_call.after.times[k] # None
           /\ pass_call.after.times[k] - pass_call.before.cur <= HALLUCINATION_GAP

(***************************************************************************)
(* run on a document of two tagged lines, of four and of two ideographs    *)
(***************************************************************************)
\* the original timestamps of the two lines: 10.0 and 15.0 s, 20.0 and 22.0 s
ScenarioAnchors == {<<10000, 15000>>, <<20000, 22000>>}

\* "[mm:ss.cc]ni hao shi jie" and "[mm:ss.cc]zai jian"
ScenarioDoc(anchors) ==
    << MkTag(anchors[1]) \o <<"ni", "hao", "shi", "jie">>,
       MkTag(anchors[2]) \o <<"zai", "jian">> >>

\* where the first recognized word starts, and how far apart the words are
ScenarioStarts == {10200, 17000, 20500, 23000}
ScenarioSteps == {300, 400, 1000}

\* the four words of the first line, recognized from t1 on with the steps
ScenarioWords(t1, s1, s2, s3) ==
    << [word |-> <<"ni">>, start |-> t1, end |-> t1 + WordDuration],
       [word |-> <<"hao">>, start |-> t1 + s1, end |-> t1 + s1 + WordDuration],
       [word |-> <<"shi">>, start |-> t1 + s1 + s2,
        end |-> t1 + s1 + s2 + WordDuration],
       [word |-> <<"jie">>, start |-> t1 + s1 + s2 + s3,
        end |-> t1 + s1 + s2 + s3 + WordDuration] >>

\* nothing recognized, or the words of the first line and nothing of the second
ScenarioResults ==
    {<<>>} \cup {<<Segment(ScenarioWords(t1, s1, s2, s3))>> :
                    t1 \in ScenarioStarts, s1 \in ScenarioSteps,
                    s2 \in ScenarioSteps, s3 \in ScenarioSteps}

InitScenario ==
    /\ content \in {ScenarioDoc(a) : a \in ScenarioAnchors}
    /\ parser = NewParser
    /\ result \in ScenarioResults
    /\ time_offset = 0
    /\ enable_force_calibration = TRUE
    /\ enable_avg_distribution \in BOOLEAN
    /\ apc = "parse"
    /\ line_i = 0
    /\ lines_tokens_map = <<>>
    /\ current_last_time = 0
    /\ output_lines = <<>>
    /\ run_return = <<>>
    /\ raised = ""
    /\ stop_event = FALSE
    /\ stop_polled = FALSE
    /\ construct_call = NoCall
    /\ parse_call = NoCall
    /\ pass_call = NoCall
    /\ IdleWorker

\* run on the recognition result, with the toggles as they are set
RunScenario ==
    RunStart(result, time_offset, enable_force_calibration,
             enable_avg_distribution)

NextScenario == Parse \/ RunScenario \/ RunLine \/ RunReturn

SpecScenario == InitScenario /\ [][NextScenario]_vars

\* scenario A: anchors 10.0 and 15.0 s, the words of the first line at 10.2,
\* 10.5, 10.9 and 11.3 s, nothing for the second line; average distribution off
ScenarioA ==
    /\ content = ScenarioDoc(<<10000, 15000>>)
    /\ result = <<Segment(ScenarioWords(10200, 300, 400, 400))>>
    /\ enable_force_calibration /\ ~enable_avg_distribution

\* C15 (scenario A): the first line's token times are 10.2, 10.5, 10.9 and
\* 11.3 s; the second line's tokens start at 15.0 s and follow at 0.25 s
\* (15.0, 15.25), and no boundary pass alters them.
C15_ScenarioA ==
    (ScenarioA /\ apc \in {"loop", "returned"})
    => /\ raised = ""
       /\ line_i >= 1
          => Times(lines_tokens_map[1]) = <<10200, 10500, 10900, 11300>>
       /\ line_i >= 2 => Times(lines_tokens_map[2]) = <<15000, 15250>>

\* run has returned in scenario A
C15_Witness == ScenarioA /\ apc = "returned" /\ line_i = 2

\* scenario D: anchors 20.0 and 22.0 s, both toggles on, and a first line
\* whose generated start is more than 1.5 s from 20.0 s
ScenarioD ==
    /\ content = ScenarioDoc(<<20000, 22000>>)
    /\ enable_force_calibration /\ enable_avg_distribution
    /\ \/ result = <<>>
       \/ /\ result # <<>>
          /\ Abs(result[1].words[1].start - 20000) > CALIBRATION_TOLERANCE

\* C16 (scenario D): the four token times of the first line are evenly spaced
\* across [20.0, 21.9]: the first is 20.0 s, the steps are equal, and no token
\* is later than 21.9 s.
C16_ScenarioD ==
    (ScenarioD /\ apc \in {"loop", "returned"} /\ line_i >= 1)
    => LET t == Times(lines_tokens_map[1])
       IN  /\ raised = ""
           /\ Len(t) = 4
           /\ t[1] = 20000
           /\ t[2] > t[1]
           /\ \A k \in 2..3 : t[k + 1] - t[k] = t[2] - t[1]
           /\ t[4] <= 22000 - PRECHECK_GAP

\* the first line was recognized from 23.0 s on and run has finalized it
C16_Witness ==
    /\ ScenarioD /\ apc = "loop" /\ line_i = 1
    /\ result # <<>> /\ result[1].words[1].start = 23000

(***************************************************************************)
(* The passes of run up to the end of force calibration, on their own      *)
(***************************************************************************)
\* matched times of a line: none, and near the original timestamp 15.0 s
CalibrationTimes == {None, 15100, 20000}

\* where the previous line ended: far before the original timestamp, within
\* 1.5 s of it on either side, and far after it
CalibrationCursors == {0, 13000, 13500, 14000, 14750, 15500, 20000}

\* the original timestamp of the line: unknown, and 15.0 s
CalibrationAnchors == {0 - 1000, 15000}

\* the line reaches the passes with its matched times, after a line that
\* ended at the cursor; force calibration is enabled
InitCalibration ==
    /\ IdleAligner
    /\ IdleWorker
    /\ construct_call = NoCall
    /\ parse_call = NoCall
    /\ \E times \in SeqsUpTo(CalibrationTimes, MaxTokens) \ {<<>>},
          cur \in CalibrationCursors,
          original_ts \in CalibrationAnchors :
           pass_call = [made |-> TRUE, applied |-> 0,
                        original_ts |-> original_ts,
                        before |-> Frame(times, cur, FALSE, ""),
                        after |-> Frame(times, cur, FALSE, "")]

\* run, lines 108-159: _clean_hallucinations, _interpolate_timestamps, the
\* cursor update and force calibration (fallback or shift)
ForceCalibration ==
    /\ pass_call.made /\ pass_call.applied = 0
    /\ pass_call' =
           [pass_call EXCEPT
               !.applied = 1,
               !.after =
                   LET f0 == clean_and_interpolate(pass_call.before.times,
                                                   pass_call.before.cur)
                   IN  IF calibration_applies(TRUE, pass_call.original_ts)
                       THEN force_calibration(f0, pass_call.original_ts)
                       ELSE f0]
    /\ UNCHANGED <<alignerVars, stop_event, construct_call, parse_call,
                   workerVars>>

NextCalibration == ForceCalibration

SpecCalibration == InitCalibration /\ [][NextCalibration]_vars

\* force calibration is over for a line that has tokens, a known original
\* timestamp and no matched time
ZeroMatchCalibrated ==
    /\ pass_call.made /\ pass_call.applied = 1
    /\ Known(pass_call.original_ts)
    /\ known_positions(pass_call.before.times) = {}

\* token k (from 0) of the line is at T + 0.25 * k
SynthesizedAt(times, T) ==
    \A k \in 1..Len(times) : times[k] = T + (k - 1) * FALLBACK_STEP

\* C20 (zero-match synthesis): with force calibration enabled, a line that has
\* tokens and a known original timestamp T but no matched time ends force
\* calibration with its first token at T and token k at T + 0.25 * k,
\* whatever the running cursor from the previous line is.
C20_ZeroMatchSynthesis ==
    ZeroMatchCalibrated
    => SynthesizedAt(pass_call.after.times, pass_call.original_ts)

\* the part of C20 that holds: the tokens are at T + 0.25 * k when the
\* previous line ended more than 1.5 s away from T - 0.25 s, and at
\* cursor + 0.25 * (k + 1) when it did not
C20_SynthesisFarFromCursor ==
    ZeroMatchCalibrated
    => IF Abs(pass_call.before.cur + LEFT_SNAP_STEP - pass_call.original_ts)
              > CALIBRATION_TOLERANCE
       THEN SynthesizedAt(pass_call.after.times, pass_call.original_ts)
       ELSE SynthesizedAt(pass_call.after.times,
                          pass_call.before.cur + LEFT_SNAP_STEP)

(***************************************************************************)
(* One iteration of the loop of run, pass by pass                          *)
(***************************************************************************)
\* matched times of a line: none, and 5.0, 5.1, 7.0, 9.0 s
PassTimes == {None, 5000, 5100, 7000, 9000}

\* the opcode pass leaves the matched times in non-decreasing order
MatchedInOrder(times) ==
    \A k1, k2 \in known_positions(times) : k1 < k2 => times[k1] <= times[k2]

\* where the previous line ended
PassCursors == {0, 4900, 8000}

\* the original timestamp of the line: unknown, 0.0, 5.0 and 10.0 s
PassAnchors == {0 - 1000, 0, 5000, 10000}

\* the original timestamp of the next line: unknown, and 8.0 s
PassNextAnchors == {0 - 1000, 8000}

\* line 0 of a document of one or two lines reaches the passes with its
\* matched times, after a cursor
InitPasses ==
    /\ IdleAligner
    /\ IdleWorker
    /\ construct_call = NoCall
    /\ parse_call = NoCall
    /\ \E times \in SeqsUpTo(PassTimes, MaxTokens) \ {<<>>},
          cur \in PassCursors,
          original_ts \in PassAnchors,
          anchors \in {<<>>} \cup {<<n>> : n \in PassNextAnchors},
          force \in BOOLEAN, avg \in BOOLEAN :
           /\ MatchedInOrder(times)
           /\ pass_call = [made |-> TRUE, applied |-> 0,
                           lines_timestamps |-> <<original_ts>> \o anchors,
                           enable_force_calibration |-> force,
                           enable_avg_distribution |-> avg,
                           before |-> Frame(times, cur, FALSE, ""),
                           cleaned |-> Frame(times, cur, FALSE, ""),
                           filled |-> Frame(times, cur, FALSE, ""),
                           calibrated |-> Frame(times, cur, FALSE, ""),
                           after |-> Frame(times, cur, FALSE, "")]

\* run, line 112: _clean_hallucinations
PassClean ==
    /\ pass_call.made /\ pass_call.applied = 0
    /\ pass_call' = [pass_call EXCEPT
                        !.applied = 1,
                        !.cleaned.times = _clean_hallucinations(pass_call.before.times)]
    /\ UNCHANGED <<alignerVars, stop_event, construct_call, parse_call,
                   workerVars>>

\* run, lines 115-120: _interpolate_timestamps and the cursor update
PassInterpolate ==
    /\ pass_call.made /\ pass_call.applied = 1
    /\ pass_call' = [pass_call EXCEPT
                        !.applied = 2,
                        !.filled = interpolate_and_update(pass_call.cleaned.times,
                                                          pass_call.cleaned.cur)]
    /\ UNCHANGED <<alignerVars, stop_event, construct_call, parse_call,
                   workerVars>>

\* run, lines 122-159: force calibration (fallback or shift)
PassCalibrate ==
    /\ pass_call.made /\ pass_call.applied = 2
    /\ pass_call' =
           [pass_call EXCEPT
               !.applied = 3,
               !.calibrated =
                   IF calibration_applies(pass_call.enable_force_calibration,
                                          pass_call.lines_timestamps[1])
                   THEN force_calibration(pass_call.filled,
                                          pass_call.lines_timestamps[1])
                   ELSE pass_call.filled]
    /\ UNCHANGED <<alignerVars, stop_event, construct_call, parse_call,
                   workerVars>>

\* run, lines 160-294: overlap pre-check, average distribution and the final
\* hard boundary check
PassBoundaries ==
    /\ pass_call.made /\ pass_call.applied = 3
    /\ pass_call' =
           [pass_call EXCEPT
               !.applied = 4,
               !.after = boundary_steps(pass_call.calibrated,
                                        pass_call.lines_timestamps, 0,
                                        pass_call.enable_force_calibration,
                                        pass_call.enable_avg_distribution)]
    /\ UNCHANGED <<alignerVars, stop_event, construct_call, parse_call,
                   workerVars>>

NextPasses == PassClean \/ PassInterpolate \/ PassCalibrate \/ PassBoundaries

SpecPasses == InitPasses /\ [][NextPasses]_vars

\* the passes taken one by one leave what run's iteration leaves
PassesAgree ==
    (pass_call.made /\ pass_call.applied = 4)
    => pass_call.after
       = reconcile_line(pass_call.before.times, pass_call.before.cur,
                        pass_call.lines_timestamps, 0,
                        pass_call.enable_force_calibration,
                        pass_call.enable_avg_distribution)

\* the line is the last one, or its next line has no known original timestamp
NoNextAnchor ==
    \/ Len(pass_call.lines_timestamps) = 1
    \/ ~Known(pass_call.lines_timestamps[2])

\* C21 (missing next anchor disables steps 4-6): for a line that is the last
\* one or whose next line has no known original timestamp, the overlap
\* pre-check, average distribution and the final hard boundary check change no
\* token time, for both settings of the average-distribution toggle: the
\* times after force calibration are the times handed to the Formatter.
C21_NoNextAnchor ==
    (pass_call.made /\ pass_call.applied = 4 /\ NoNextAnchor)
    => pass_call.after.times = pass_call.calibrated.times

\* the part of C21 that holds: without a next anchor the three steps change
\* no token time unless average distribution is on and the line was force
\* calibrated
C21_NoNextAnchorWithoutAverage ==
    (pass_call.made /\ pass_call.applied = 4 /\ NoNextAnchor
       /\ ~(pass_call.enable_avg_distribution /\ pass_call.calibrated.cal))
    => pass_call.after.times = pass_call.calibrated.times

\* the positions after k that hold a time
LaterKnown(times, k) == {j \in (k + 1)..Len(times) : times[j] # None}

\* the time the interpolation rule gives a hole: prev is the nearest earlier
\* time, later the positions of the later known times of the line, and s the
\* number of holes from the hole up to the nearest of them
RuleTime(old, k, prev) ==
    IF LaterKnown(old, k) = {} THEN prev + 250
    ELSE LET n == CHOOSE j \in LaterKnown(old, k) :
                      \A j2 \in LaterKnown(old, k) : j <= j2
             next == old[n]
             s == n - k
         IN  IF next - prev > 2500
             THEN Max(prev + 100, next - 300 * s)
             ELSE prev + Min(400, Max(60, (next - prev) \div (s + 1)))

\* C22 (interpolation rule): _interpolate_timestamps leaves every known time
\* unchanged and gives every hole a time, from left to right: prev + 0.25
\* with no later known time, max(prev + 0.1, next - 0.3 * s) when
\* next - prev > 2.5, and prev + min(0.4, max(0.06, (next - prev) / (s + 1)))
\* otherwise, prev being the nearest earlier time of the line or the previous
\* line's cursor; after the pass no token is a hole.
C22_InterpolationRule ==
    (pass_call.made /\ pass_call.applied >= 2)
    => LET old == pass_call.cleaned.times
           new == pass_call.filled.times
       IN  /\ Len(new) = Len(old)
           /\ \A k \in 1..Len(old) :
                  /\ new[k] # None
                  /\ old[k] # None => new[k] = old[k]
                  /\ old[k] = None
                     => new[k] = RuleTime(old, k,
                                          IF k = 1 THEN pass_call.cleaned.cur
                                          ELSE new[k - 1])

\* two holes before a time 9.0 s after a line that ended at 0.0 s: the first
\* is snapped right to 8.4 s, the second is put halfway at 8.7 s
C22_Witness ==
    /\ pass_call.made /\ pass_call.applied = 2
    /\ pass_call.cleaned.cur = 0
    /\ pass_call.cleaned.times = <<None, None, 9000>>
    /\ pass_call.filled.times = <<8400, 8700, 9000>>

\* token k of the line has a time, a later token has one, and the nearest
\* such later time is more than 3.0 s after it
FarBeforeNext(times, k) ==
    /\ times[k] # None
    /\ \E n \in LaterKnown(times, k) :
           /\ \A j \in LaterKnown(times, k) : n <= j
           /\ times[n] - times[k] > 3000

\* C23 (hallucination removal rule): _clean_hallucinations turns token k into
\* a hole exactly when it has a time t1, some later token of the line has a
\* time and the nearest such later time t2 has t2 - t1 > 3.0 s; every other
\* token's time is left as it was, the last token is never removed, and a
\* line of fewer than 2 tokens is untouched.
C23_HallucinationRule ==
    (pass_call.made /\ pass_call.applied >= 1)
    => LET old == pass_call.before.times
           new == pass_call.cleaned.times
       IN  /\ Len(new) = Len(old)
           /\ \A k \in 1..Len(old) :
                  new[k] = IF FarBeforeNext(old, k) THEN None ELSE old[k]
           /\ Len(old) > 0 => new[Len(old)] = old[Len(old)]
           /\ Len(old) < 2 => new = old

\* of 5.0, 5.1 and 9.0 s the middle time is removed, 3.9 s before the next
C23_Witness ==
    /\ pass_call.made /\ pass_call.applied = 1
    /\ pass_call.before.times = <<5000, 5100, 9000>>
    /\ pass_call.cleaned.times = <<5000, None, 9000>>

\* two times of the line have no known time between them
NeighbouringKnown(times, k1, k2) ==
    /\ k1 < k2
    /\ times[k1] # None /\ times[k2] # None
    /\ \A j \in (k1 + 1)..(k2 - 1) : times[j] = None

\* C30 (hallucination removal leaves no large gap): after
\* _clean_hallucinations has run on a line, every two known token times of
\* the line with no known time between them differ by at most 3.0 s.
C30_NoLargeGap ==
    (pass_call.made /\ pass_call.applied >= 1)
    => \A k1, k2 \in 1..Len(pass_call.cleaned.times) :
           NeighbouringKnown(pass_call.cleaned.times, k1, k2)
           => Abs(pass_call.cleaned.times[k2] - pass_call.cleaned.times[k1]) <= 3000

\* force calibration is over for a line with a known original timestamp,
\* with force calibration enabled
ForceCalibrated ==
    /\ pass_call.made /\ pass_call.applied >= 3
    /\ pass_call.enable_force_calibration
    /\ Known(pass_call.lines_timestamps[1])

\* the force-calibration step moved every token time by T - g when the first
\* generated time g is more than 1.5 s from T, and changed none otherwise
ShiftedAsOne ==
    LET T == pass_call.lines_timestamps[1]
        old == pass_call.filled.times
        new == pass_call.calibrated.times
        g == old[1]
    IN  /\ Len(new) = Len(old)
        /\ IF Abs(g - T) > 1500
           THEN \A k \in 1..Len(old) : new[k] = old[k] + (T - g)
           ELSE new = old

\* C24 (force shift preserves rhythm): with force calibration enabled and a
\* known original timestamp T, a line whose first generated time g has
\* |g - T| > 1.5 s has every token time changed by T - g (the first token
\* becomes T, the differences stay); with |g - T| <= 1.5 s the step changes
\* no token time.
C24_ForceShift == ForceCalibrated => ShiftedAsOne

\* the part of C24 that holds: the same for an original timestamp above 0.0 s
C24_ForceShiftAboveZero ==
    (ForceCalibrated /\ pass_call.lines_timestamps[1] > 0) => ShiftedAsOne

(***************************************************************************)
(* The opcode pass of run, on untagged lines and words of one or two        *)
(* characters                                                              *)
(***************************************************************************)
\* two ideographs; the same reversed; a letter, a space and an ideograph;
\* punctuation between two ideographs
OpcodeBodies ==
    {<<"ni", "hao">>, <<"hao", "ni">>, <<"a", " ", "ni">>, <<"ni", "!", "hao">>}
OpcodeDocs == SeqsUpTo(OpcodeBodies, MaxLines) \ {<<>>}

\* recognized words of one character and of two
OpcodeWordTexts == {<<"ni">>, <<"hao">>, <<"ni", "hao">>, <<"a">>}
OpcodeWords ==
    {[word |-> w, start |-> t, end |-> t + WordDuration] :
         w \in OpcodeWordTexts, t \in WordStarts}
OpcodeResults ==
    {<<>>} \cup {<<Segment(ws)>> : ws \in SeqsUpTo(OpcodeWords, MaxWords) \ {<<>>}}

InitOpcodes ==
    /\ content \in OpcodeDocs
    /\ parser = NewParser
    /\ result = <<>>
    /\ time_offset = 0
    /\ enable_force_calibration = TRUE
    /\ enable_avg_distribution = FALSE
    /\ apc = "parse"
    /\ line_i = 0
    /\ lines_tokens_map = <<>>
    /\ current_last_time = 0
    /\ output_lines = <<>>
    /\ run_return = <<>>
    /\ raised = ""
    /\ stop_event = FALSE
    /\ stop_polled = FALSE
    /\ construct_call = NoCall
    /\ parse_call = NoCall
    /\ pass_call = NoCall
    /\ IdleWorker

\* run on a recognition result of OpcodeResults
RunOpcodes ==
    \E res \in OpcodeResults :
        RunStart(res, time_offset, enable_force_calibration,
                 enable_avg_distribution)

NextOpcodes == Parse \/ RunOpcodes \/ RunLine \/ RunReturn

SpecOpcodes == InitOpcodes /\ [][NextOpcodes]_vars

\* the opcode pass of run is over and the loop over the lines has not begun
OpcodePassDone == apc = "loop" /\ line_i = 0

\* the reference tokens in document order, as the opcode pass left them
TokensInOrder == Flatten(lines_tokens_map)

\* the AI characters of the recognition result
AIChars == _prepare_ai_sequence(_extract_words_from_result(result))

\* the 'equal' spans of the opcodes, as pairs <<token, AI character>> in order
EqualSpans ==
    equal_pairs(Tuple([k \in 1..Len(TokensInOrder) |-> TokensInOrder[k].clean_text]),
                Tuple([k \in 1..Len(AIChars) |-> <<AIChars[k].text>>]))

\* C19 (aligner time assignment): after the opcode pass of run a reference
\* token has a time exactly when it lies in an 'equal' span, where its
\* normalized text equals the AI character it is paired with; the tokens of
\* 'replace' and 'delete' spans have none; and the assigned times are
\* non-decreasing in document order across all lines, each being the greater
\* of the AI character's start and the latest time assigned so far.
C19_OpcodeBackfill ==
    OpcodePassDone
    => /\ \A k \in 1..Len(TokensInOrder) :
              TokensInOrder[k].time # None
              <=> \E n \in 1..Len(EqualSpans) : EqualSpans[n][1] = k
       /\ \A n \in 1..Len(EqualSpans) :
              /\ TokensInOrder[EqualSpans[n][1]].clean_text
                     = <<AIChars[EqualSpans[n][2]].text>>
              /\ TokensInOrder[EqualSpans[n][1]].time
                     = Max(AIChars[EqualSpans[n][2]].start,
                           IF n = 1 THEN 0
                           ELSE TokensInOrder[EqualSpans[n - 1][1]].time)
       /\ \A k1, k2 \in 1..Len(TokensInOrder) :
              (k1 < k2 /\ TokensInOrder[k1].time # None
                       /\ TokensInOrder[k2].time # None)
              => TokensInOrder[k1].time <= TokensInOrder[k2].time

\* the pass matched tokens of two lines, held a token back to the latest time
\* assigned (its AI character starts earlier), took a time from the second
\* character of a word, and left a token without a time
C19_Witness ==
    /\ OpcodePassDone
    /\ Len(lines_tokens_map) = 2
    /\ \E n \in 2..Len(EqualSpans) :
           /\ AIChars[EqualSpans[n][2]].start
                  < TokensInOrder[EqualSpans[n - 1][1]].time
           /\ TokensInOrder[EqualSpans[n][1]].line_idx = 1
           /\ TokensInOrder[EqualSpans[n - 1][1]].line_idx = 0
    /\ \E n \in 1..Len(EqualSpans) :
           AIChars[EqualSpans[n][2]].start \notin WordStarts
    /\ \E k \in 1..Len(TokensInOrder) : TokensInOrder[k].time = None

(***************************************************************************)
(* format_time on its own                                                  *)
(***************************************************************************)
\* times in whole milliseconds: below one second, around one second and ten
\* seconds, around one minute, and beyond 59 minutes
FormatTimes ==
    {0, 1, 125, 200, 999, 1000, 1001, 1002, 1499, 1500, 2000, 10199, 10200,
     10250, 59999, 60000, 60001, 61250, 3599999, 3600000, 3600123, 6000000}

\* offsets in milliseconds: none, and half a second to two seconds early
FormatOffsets == {0, 0 - 500, 0 - 1500, 0 - 2000}

\* format_time is about to be called with a time and an offset
InitFormatTime ==
    /\ IdleAligner
    /\ IdleWorker
    /\ construct_call = NoCall
    /\ parse_call = NoCall
    /\ \E t \in FormatTimes, o \in FormatOffsets :
           pass_call = [made |-> TRUE, applied |-> 0, seconds |-> t,
                        time_offset |-> o, text |-> <<>>]

\* format_time(seconds, time_offset)
FormatTime ==
    /\ pass_call.made /\ pass_call.applied = 0
    /\ pass_call' = [pass_call EXCEPT
                        !.applied = 1,
                        !.text = format_time(pass_call.seconds,
                                             pass_call.time_offset)]
    /\ UNCHANGED <<alignerVars, stop_event, construct_call, parse_call,
                   workerVars>>

NextFormatTime == FormatTime

SpecFormatTime == InitFormatTime /\ [][NextFormatTime]_vars

\* mm:ss.fff of a time of n >= 0 whole milliseconds: minutes not wrapped at
\* 59, seconds and milliseconds zero-padded
mm_ss_fff(n) ==
    ZeroPad(n \div 60000, 2) \o <<":">> \o ZeroPad((n \div 1000) % 60, 2)
    \o <<".">> \o ZeroPad(n % 1000, 3)

Formatted == pass_call.made /\ pass_call.applied = 1

\* C18 (timestamp formatting): for every time t in whole milliseconds and every
\* offset o, format_time(t, o) is mm:ss.fff of max(0, t + o), truncated to the
\* millisecond and never negative.
C18_FormatTime ==
    Formatted
    => pass_call.text = mm_ss_fff(Max(0, pass_call.seconds + pass_call.time_offset))

\* the parts of C18 that hold of every call: the text is that of a whole
\* millisecond at most one below max(0, t + o), and t + o < 0 gives 00:00.000
C18_WithinOneMillisecond ==
    Formatted
    => LET n == Max(0, pass_call.seconds + pass_call.time_offset)
       IN  /\ pass_call.text \in {mm_ss_fff(n), mm_ss_fff(Max(0, n - 1))}
           /\ pass_call.seconds + pass_call.time_offset < 0
              => pass_call.text = mm_ss_fff(0)

(***************************************************************************)
(* The control process (ui/main_window.py) and the daemon worker           *)
(* (core/whisper_worker.py)                                                *)
(***************************************************************************)
MaxTasks == 2

ModelSizes == {"base", "large"}
\* what a load hands back
LoadedModel(model_size) == model_size

\* the lyric texts start may find in input_txt: two lyric lines under a
\* header, one line without a token, nothing
WorkerDocs ==
    { <<HeaderLine, MkTag(1000) \o <<"ni", "hao">>, MkTag(6000) \o <<"a", " ", "ni">> >>,
      <<MkTag(1000) \o <<"!">> >>,
      <<>> }

\* what recognition may return
WorkerResults ==
    { <<>>,
      <<Segment(<<[word |-> <<"ni">>, start |-> 0, end |-> WordDuration],
                  [word |-> <<"hao">>, start |-> 2500, end |-> 2500 + WordDuration]>>)>> }

InitWorker ==
    /\ IdleAligner
    /\ IdleWorker
    /\ construct_call = NoCall
    /\ parse_call = NoCall
    /\ pass_call = NoCall

\* LyricsGenApp.start, reached through btn_run
UiStart(doc, force, model_size, release_vram) ==
    /\ btn_run
    /\ started < MaxTasks
    /\ started' = started + 1
    /\ stop_pending' = FALSE
    /\ lrc_parser' = parse(lrc_parser, doc)
    /\ btn_run' = FALSE
    /\ btn_stop' = TRUE
    /\ content' = doc
    /\ stop_event' = FALSE
    /\ result_queue' = <<>>
    /\ task_queue' = Append(task_queue,
                            [given |-> TRUE,
                             lrc_parser_data |-> parse(lrc_parser, doc),
                             time_offset |-> 0,
                             model_size |-> model_size,
                             release_vram |-> release_vram,
                             enable_force_calibration |-> force,
                             enable_avg_distribution |-> FALSE])
    /\ UNCHANGED <<parser, result, time_offset, enable_force_calibration,
                   enable_avg_distribution, apc, line_i, lines_tokens_map,
                   current_last_time, output_lines, run_return, raised,
                   stop_polled, construct_call, parse_call, pass_call, wpc, args,
                   model_cache, model, model_source, put_by_task, out_txt>>

Start ==
    \E doc \in WorkerDocs, force \in BOOLEAN, model_size \in ModelSizes,
       release_vram \in BOOLEAN :
        UiStart(doc, force, model_size, release_vram)

\* LyricsGenApp.stop, reached through btn_stop
UiStop ==
    /\ btn_stop
    /\ ~stop_event
    /\ stop_event' = TRUE
    /\ stop_pending' = (stop_pending \/ task_queue # <<>>)
    /\ UNCHANGED <<alignerVars, construct_call, parse_call, pass_call,
                   task_queue, result_queue, wpc, args, model_cache, model,
                   model_source, put_by_task, btn_run, btn_stop, out_txt,
                   started, lrc_parser>>

\* LyricsGenApp.check_queue finding a message on result_queue, with on_done,
\* on_error, on_aborted and cleanup_worker; the timer runs from start to the
\* first message
UiCheckQueue ==
    /\ ~btn_run
    /\ result_queue # <<>>
    /\ result_queue' = Tail(result_queue)
    /\ out_txt' = IF Head(result_queue)[1] = "success"
                  THEN Head(result_queue)[2] ELSE out_txt
    /\ btn_run' = TRUE
    /\ btn_stop' = FALSE
    /\ UNCHANGED <<alignerVars, stop_event, construct_call, parse_call, pass_call,
                   task_queue, wpc, args, model_cache, model, model_source,
                   put_by_task,
                   started,
                   stop_pending, lrc_parser>>

\* result_queue.put(msg) by run_inference_task
put(msg) ==
    /\ result_queue' = Append(result_queue, msg)
    /\ put_by_task' = Append(put_by_task, msg)

\* the finally clause had it left the cache as it is
finally_keeps(c) == c

\* the finally clause of run_inference_task, on a cache c
finally(c) ==
    IF args.release_vram THEN [model |-> NoModel, model_size |-> NoModel] ELSE c

\* daemon_worker, lines 106-119, and run_inference_task, lines 153-158: a
\* task is taken, the stop event cleared, the parser restored
WorkerGet ==
    /\ wpc = "get"
    /\ task_queue # <<>>
    /\ task_queue' = Tail(task_queue)
    /\ args' = Head(task_queue)
    /\ stop_event' = FALSE
    /\ put_by_task' = <<>>
    /\ parser' = Head(task_queue).lrc_parser_data
    /\ model' = NoModel
    /\ model_source' = "none"
    /\ wpc' = "load"
    /\ stop_polled' = FALSE
    /\ UNCHANGED <<content, result, time_offset, enable_force_calibration,
                   enable_avg_distribution, apc, line_i, lines_tokens_map,
                   current_last_time, output_lines, run_return, raised,
                   construct_call, parse_call, pass_call, result_queue,
                   model_cache, btn_run, btn_stop, out_txt, started,
                   stop_pending, lrc_parser>>

\* the except clauses of run_inference_task (lines 291-299) and its finally
\* clause, for an exception raised with the cache c
except(exception, c) ==
    /\ IF exception = "OutOfMemoryError"
       THEN /\ put(<<"error", "OutOfMemoryError">>)
            /\ model_cache' = finally([model |-> NoModel, model_size |-> NoModel])
       ELSE /\ IF ~stop_event THEN put(<<"error", exception>>)
               ELSE UNCHANGED <<result_queue, put_by_task>>
            /\ model_cache' = finally(c)
    /\ wpc' = "get"

\* run_inference_task, lines 179-230: the cached model is taken, or a model
\* is loaded unless the stop event is set; a load may fail
WorkerLoad(outcome) ==
    /\ wpc = "load"
    /\ LET hit == model_cache.model # NoModel
                  /\ model_cache.model_size = args.model_size
           \* a cached model of another size is cleared, lines 184-189
           cleared == IF model_cache.model # NoModel
                      THEN [model |-> NoModel, model_size |-> NoModel]
                      ELSE model_cache
           loaded == IF stop_event THEN NoModel ELSE LoadedModel(args.model_size)
           set == IF args.release_vram THEN cleared
                  ELSE [model |-> loaded, model_size |-> args.model_size]
       IN  IF hit
           THEN /\ outcome = "ok"
                /\ model' = model_cache.model
                /\ model_source' = "cache"
                /\ wpc' = "loaded"
                /\ UNCHANGED <<model_cache, result_queue, put_by_task>>
           ELSE IF outcome = "ok" \/ stop_event
           THEN /\ outcome = "ok"
                /\ model' = loaded
                /\ model_source' = IF stop_event THEN "none" ELSE "load"
                /\ model_cache' = set
                /\ wpc' = "loaded"
                /\ UNCHANGED <<result_queue, put_by_task>>
           ELSE /\ except("RuntimeError", cleared)
                /\ model_source' = "load"
                /\ UNCHANGED model
    /\ UNCHANGED <<alignerVars, stop_event, construct_call, parse_call, pass_call,
                   task_queue, args, btn_run, btn_stop, out_txt, started,
                   stop_pending, lrc_parser>>

\* the look at the stop event had it put ("aborted", None) and gone on
\* without returning
WorkerCheckStopGoesOn ==
    /\ wpc \in {"loaded", "recognized"}
    /\ IF stop_event
       THEN /\ put(<<"aborted", None>>)
            /\ UNCHANGED model_cache
       ELSE UNCHANGED <<result_queue, put_by_task, model_cache>>
    /\ wpc' = IF wpc = "loaded" THEN "recognize" ELSE "align"
    /\ apc' = IF wpc = "loaded" THEN apc ELSE "ready"
    /\ UNCHANGED <<content, parser, result, time_offset, enable_force_calibration,
                   enable_avg_distribution, line_i, lines_tokens_map,
                   current_last_time, output_lines, run_return, raised,
                   stop_polled, stop_event, construct_call, parse_call, pass_call,
                   task_queue, args, model, model_source, btn_run, btn_stop,
                   out_txt, started, stop_pending, lrc_parser>>

\* run_inference_task, lines 235-237 and 270-272: the stop event is looked at
\* before and after recognition
WorkerCheckStop ==
    /\ wpc \in {"loaded", "recognized"}
    /\ IF stop_event
       THEN /\ put(<<"aborted", None>>)
            /\ model_cache' = finally(model_cache)
            /\ wpc' = "get"
            /\ UNCHANGED apc
       ELSE /\ wpc' = IF wpc = "loaded" THEN "recognize" ELSE "align"
            /\ apc' = IF wpc = "loaded" THEN apc ELSE "ready"
            /\ UNCHANGED <<result_queue, put_by_task, model_cache>>
    /\ UNCHANGED <<content, parser, result, time_offset, enable_force_calibration,
                   enable_avg_distribution, line_i, lines_tokens_map,
                   current_last_time, output_lines, run_return, raised,
                   stop_polled, stop_event, construct_call, parse_call, pass_call,
                   task_queue, args, model, model_source, btn_run, btn_stop,
                   out_txt, started,
                   stop_pending, lrc_parser>>

\* run_inference_task, lines 239-268: model.align or model.transcribe returns
\* a result
WorkerRecognize(res) ==
    /\ wpc = "recognize"
    /\ result' = res
    /\ wpc' = "recognized"
    /\ UNCHANGED <<content, parser, time_offset, enable_force_calibration,
                   enable_avg_distribution, apc, line_i, lines_tokens_map,
                   current_last_time, output_lines, run_return, raised,
                   stop_polled, stop_event, construct_call, parse_call, pass_call,
                   task_queue, result_queue, args, model_cache, model, model_source,
                   put_by_task, btn_run, btn_stop, out_txt, started,
                   stop_pending, lrc_parser>>

\* run_inference_task, lines 239-268: model.align or model.transcribe raises
WorkerRecognizeRaises(exception) ==
    /\ wpc = "recognize"
    /\ except(exception, model_cache)
    /\ UNCHANGED <<alignerVars, stop_event, construct_call, parse_call, pass_call,
                   task_queue, args, model, model_source, btn_run, btn_stop,
                   out_txt, started,
                   stop_pending, lrc_parser>>

\* run_inference_task, lines 277-283: the aligner is made and run is called
WorkerRun ==
    /\ wpc = "align"
    /\ RunStart(result, args.time_offset, args.enable_force_calibration,
                args.enable_avg_distribution)

\* run_inference_task, lines 285-290 and the finally clause: run has returned
WorkerPutResult ==
    /\ wpc = "align"
    /\ apc = "returned"
    /\ IF stop_event THEN put(<<"aborted", None>>)
       ELSE put(<<"success", run_return>>)
    /\ model_cache' = finally(model_cache)
    /\ wpc' = "get"
    /\ apc' = "idle"
    /\ UNCHANGED <<content, parser, result, time_offset, enable_force_calibration,
                   enable_avg_distribution, line_i, lines_tokens_map,
                   current_last_time, output_lines, run_return, raised,
                   stop_polled, stop_event, construct_call, parse_call, pass_call,
                   task_queue, args, model, model_source, btn_run, btn_stop,
                   out_txt, started,
                   stop_pending, lrc_parser>>

\* run_inference_task, lines 296-303: run has raised
WorkerRunRaised ==
    /\ wpc = "align"
    /\ apc = "raised"
    /\ except(raised, model_cache)
    /\ apc' = "idle"
    /\ raised' = ""
    /\ UNCHANGED <<content, parser, result, time_offset, enable_force_calibration,
                   enable_avg_distribution, line_i, lines_tokens_map,
                   current_last_time, output_lines, run_return,
                   stop_polled, stop_event, construct_call, parse_call, pass_call,
                   task_queue, args, model, model_source, btn_run, btn_stop,
                   out_txt, started,
                   stop_pending, lrc_parser>>

Load == \E outcome \in {"ok", "failed"} : WorkerLoad(outcome)

Recognize == \E res \in WorkerResults : WorkerRecognize(res)

RecognizeRaises ==
    \E exception \in {"Exception", "OutOfMemoryError"} :
        WorkerRecognizeRaises(exception)

NextWorker ==
    \/ Start \/ UiStop \/ UiCheckQueue
    \/ WorkerGet \/ Load \/ WorkerCheckStop \/ Recognize \/ RecognizeRaises
    \/ WorkerRun \/ RunLine \/ RunAbort \/ RunReturn
    \/ WorkerPutResult \/ WorkerRunRaised

SpecWorker == InitWorker /\ [][NextWorker]_vars

\* the daemon worker has run a task to its end and waits for the next
TaskOver == wpc = "get" /\ args.given

\* C6 (terminal outcome): every task the daemon worker dequeues puts a
\* terminal message on the result queue, whenever the control process sets the
\* stop event and whether or not recognition or alignment raises.  Only the
\* task itself puts its messages, so "eventually" is over when the task is: a
\* task the worker has run to its end has put its message.
C6_TerminalMessage == TaskOver => put_by_task # <<>>

\* the text of a success message has a line for every lyric line of the
\* document: it is what run had built when its loop had passed the last line
CoversEveryLine(text) ==
    parser.lines_text # <<>>
    => /\ line_i = Len(parser.lines_text)
       /\ text = output_lines
       /\ Len(text) >= Len(parser.lines_text)

\* C7 (cancellation is all-or-nothing): a run one of whose polls found the
\* stop event set returns no line, and the task then ends with the one message
\* ("aborted", None); a success message carries a text with a line for every
\* lyric line, and no poll of its run found the stop event set.
C7_AllOrNothing ==
    /\ (apc = "returned" /\ stop_polled) => run_return = <<>>
    /\ (TaskOver /\ stop_polled)
       => /\ Len(put_by_task) = 1
          /\ put_by_task[1][1] = "aborted"
          /\ put_by_task[1][2] = None
    /\ \A k \in 1..Len(put_by_task) :
           put_by_task[k][1] = "success"
           => ~stop_polled /\ CoversEveryLine(put_by_task[k][2])

\* a poll found the stop event set after run had built the first line of a
\* document of two, and the task has ended
C7_Witness ==
    /\ TaskOver /\ stop_polled
    /\ line_i >= 1 /\ line_i < Len(parser.lines_text)
    /\ Len(output_lines) > Len(header_lines(parser.headers))
    /\ put_by_task # <<>> /\ put_by_task[1][1] = "aborted"

\* the cache holds a model of the size it is keyed with, or none
CacheKeyed ==
    model_cache.model # NoModel
    => /\ model_cache.model_size \in ModelSizes
       /\ model_cache.model = LoadedModel(model_cache.model_size)

\* the cache is empty after a task run with release_vram set and after an
\* out-of-memory error
CacheReleased ==
    TaskOver
    => /\ args.release_vram => model_cache.model = NoModel
       /\ (\E k \in 1..Len(put_by_task) :
               put_by_task[k] = <<"error", "OutOfMemoryError">>)
          => model_cache.model = NoModel

\* a step of the task past its cache lookup: the cached model is taken,
\* without a load, exactly when a model is cached under the task's
\* model_size, and otherwise no model of another size is left in the cache
LookupStep ==
    (wpc = "load" /\ wpc' # "load")
    => LET hit == model_cache.model # NoModel
                  /\ model_cache.model_size = args.model_size
       IN  /\ model_source' = "cache" <=> hit
           /\ hit => model' = model_cache.model /\ model_cache' = model_cache
           /\ ~hit => /\ model_source' = "load" \/ stop_event
                      /\ model_cache'.model \in {NoModel, LoadedModel(args.model_size)}

\* C25 (model cache keyed by model identity): across any sequence of tasks
\* the worker holds at most one cached model, under the model_size it was
\* loaded for; a task reuses the cached model without loading if and only if
\* a model is cached and its model_size is the task's; a task with another
\* model_size clears the cache before loading; after a task run with
\* release_vram set, and after an out-of-memory error, the cache is empty.
C25_ModelCache == [](CacheKeyed /\ CacheReleased) /\ [][LookupStep]_vars

\* a second task reused the model the first had cached, ran with release_vram
\* set, and left the cache empty
C25_Witness ==
    /\ TaskOver
    /\ started = 2
    /\ model_source = "cache"
    /\ args.release_vram
    /\ model_cache.model = NoModel

\* the task the worker has run to its end is the one last submitted, and
\* stop was called while it was still on task_queue
StoppedBeforeDequeue == TaskOver /\ task_queue = <<>> /\ stop_pending

\* C26 (a stop request is never lost): when the control process sets the stop
\* event after it has submitted a task and before the worker has dequeued it,
\* the worker does not run the task to a 'success' result: the task's
\* terminal message is 'aborted'.
C26_StopNeverLost ==
    StoppedBeforeDequeue
    => /\ Len(put_by_task) = 1
       /\ put_by_task[1][1] = "aborted"

\* the messages on result_queue are those of the task the worker took last,
\* and no task submitted after it waits on task_queue
QueueOfLastTask ==
    result_queue # <<>>
    => /\ task_queue = <<>>
       /\ args.given
       /\ Len(result_queue) = Len(put_by_task)
       /\ \A k \in 1..Len(result_queue) :
              /\ result_queue[k][1] = put_by_task[k][1]
              /\ result_queue[k][1] = "success"
                 => result_queue[k][2] = put_by_task[k][2]

\* C27 (at most one terminal message per task): run_inference_task puts at
\* most one of ("success", _), ("error", _), ("aborted", None) on the result
\* queue for a task, in every interleaving with stop requests and on every
\* exception path, so a result read by the control process belongs to the
\* task it last submitted.
C27_OneTerminalMessage ==
    /\ Len(put_by_task) <= 1
    /\ put_by_task # <<>> => put_by_task[1][1] \in {"success", "error", "aborted"}
    /\ QueueOfLastTask

\* the second task was stopped and has put its one message, ("aborted",
\* None), which waits on the result queue
C27_Witness ==
    /\ TaskOver
    /\ started = 2
    /\ result_queue # <<>>
    /\ Len(put_by_task) = 1
    /\ put_by_task[1][1] = "aborted"

\* C29 (parser timestamps stay in step with lines): after every call of
\* LrcParser.parse, a second and later call on the same parser instance
\* included, lines_timestamps has exactly one entry per entry of lines_text,
\* and entry i is the timestamp (or the unknown sentinel) of lyric line i of
\* the text just parsed.
C29_TimestampsInStep ==
    started > 0
    => /\ Len(lrc_parser.lines_timestamps) = Len(lrc_parser.lines_text)
       /\ lrc_parser.lines_timestamps = parse(NewParser, content).lines_timestamps

\* the part of C29 that holds: the same after the first call on an instance
C29_TimestampsInStepAtFirst ==
    started = 1
    => /\ Len(lrc_parser.lines_timestamps) = Len(lrc_parser.lines_text)
       /\ lrc_parser.lines_timestamps = parse(NewParser, content).lines_timestamps


(***************************************************************************)
(* Consecutive lines of the output                                         *)
(***************************************************************************)
\* lines i and i + 1 are both finalized and both have tokens
ConsecutiveWithTokens(i) ==
    /\ i \in Finalized
    /\ i + 1 \in Finalized
    /\ lines_tokens_map[i] # <<>>
    /\ lines_tokens_map[i + 1] # <<>>

\* C28 (lines do not overlap): for every two consecutive lyric lines that both
\* have tokens, the finalized first token time of the later line is not
\* earlier than the finalized last token time of the earlier line, for every
\* setting of the toggles and with or without original timestamps.
C28_NoOverlap ==
    \A i \in 1..Len(lines_tokens_map) :
        ConsecutiveWithTokens(i) => first_time(i + 1) >= last_time(i)

=============================================================================
